---- MODULE Spec2Model ----
(***************************************************************************)
(* Rolling control-plane upgrade of cluster-api-upgrade-tool:              *)
(* ControlPlaneUpgrader.Upgrade and MachineCreator.NewMachine, run against *)
(* a management cluster (Machines, infrastructure and bootstrap objects),  *)
(* a target cluster (Nodes, Pods, ConfigMaps) and its etcd membership.     *)
(***************************************************************************)
EXTENDS Integers, Sequences, FiniteSets, TLC

\* ------------------------------------------------------------------ bounds
\* size of the control-plane fleet listed by the first run
NumMachines == 2
\* number of Upgrade runs (the first run and its re-runs)
MaxRuns == 2
\* largest value of time.Now().Unix() a run observes
MaxClock == 2
\* number of sleeping polls a wait stage makes before its deadline passes
MaxPolls == 1
\* the longest list a pure function is called with
MaxList == 3
\* number of MachineDeployments in a worker fleet
NumDeployments == 3

\* --------------------------------------------------------------- constants
UpgradeIDAnnotationKey == "upgrade-id"

\* the caller-supplied upgrade identifier of every run of the model
upgradeID == "u1"

\* ------------------------------------------------------------------ strings
\* A version string: an optional "v" and dot-separated numbers; "" is EmptyString.
VString(prefix, nums) == [prefix |-> prefix, nums |-> nums]
EmptyString == VString("", <<>>)

\* semver.Version; its zero value is unsetVersion
SemVer(major, minor, patch) == [Major |-> major, Minor |-> minor, Patch |-> patch]
unsetVersion == SemVer(0, 0, 0)

\* semver.ParseTolerant: strips a leading "v", pads one or two numeric parts with
\* zeros to three; anything else does not parse
ParseTolerantOk(s) == s.prefix \in {"", "v"} /\ Len(s.nums) \in 1..3
ParseTolerant(s) ==
    LET padded == s.nums \o <<0, 0>>
    IN SemVer(padded[1], padded[2], padded[3])

\* semver.Version.String(): "major.minor.patch", no prefix
VersionString(v) == VString("", <<v.Major, v.Minor, v.Patch>>)

\* semver.Version.LT / GT
VersionLT(a, b) ==
    \/ a.Major < b.Major
    \/ a.Major = b.Major /\ a.Minor < b.Minor
    \/ a.Major = b.Major /\ a.Minor = b.Minor /\ a.Patch < b.Patch
\* the comparison of GT turned round
VersionGTReversed(a, b) == VersionLT(a, b)
VersionGT(a, b) == VersionLT(b, a)

\* ------------------------------------------------------------- provider ids
\* A raw provider ID string "cloud:///zone/id"; "" is EmptyProviderID.
RawProviderID(cloud, zone, id) == [cloud |-> cloud, zone |-> zone, id |-> id]
EmptyProviderID == RawProviderID("", "", 0)

\* noderefutil.NewProviderID: fails on the empty string, else keeps cloud and id
NewProviderIDOk(raw) == raw # EmptyProviderID
NewProviderID(raw) == [cloudProvider |-> raw.cloud, id |-> raw.id]
\* noderefutil.ProviderID.Equals
ProviderIDEquals(a, b) == a.cloudProvider = b.cloudProvider /\ a.id = b.id

\* --------------------------------------------------------------- hostnames
\* the hostname "ip-<k>"; the empty string is <<>>
Hostname(k) == <<"ip", k>>
NoHostname == <<>>

NodeHostName == "Hostname"
NodeInternalIP == "InternalIP"

RECURSIVE FirstHostname(_)
FirstHostname(addresses) ==
    IF addresses = <<>> THEN NoHostname
    ELSE IF Head(addresses).type = NodeHostName THEN Head(addresses).address
    ELSE FirstHostname(Tail(addresses))

\* the address of the first entry of any type
hostnameForNodeAnyAddress(node) ==
    IF node.addresses = <<>> THEN NoHostname ELSE Head(node.addresses).address

\* hostnameForNode of a non-nil node
hostnameForNode(node) == FirstHostname(node.addresses)

\* ------------------------------------------------------------- etcd members
\* strconv.FormatUint(id, 16): the digits of id in base 16, most significant first
RECURSIVE FormatUint(_, _)
FormatUint(n, base) ==
    IF n < base THEN <<n>> ELSE Append(FormatUint(n \div base, base), n % base)

\* etcdctl "member remove <id>" reads its argument as a hexadecimal number
RECURSIVE ParseHex(_)
ParseHex(digits) ==
    IF digits = <<>> THEN 0
    ELSE 16 * ParseHex(SubSeq(digits, 1, Len(digits) - 1)) + digits[Len(digits)]

\* the member id etcd gave the member hosted on instance k
MemberID(k) == 4 + 6 * k

\* ------------------------------------------------------------------- pods
components == <<"etcd", "kube-apiserver", "kube-scheduler", "kube-controller-manager">>
requiredConditions == {"PodScheduled", "Initialized", "Ready", "ContainersReady"}

Range(s) == {s[j] : j \in 1..Len(s)}

\* the static pod <component>-<hostname>; its Status.Conditions are <<type, status>>
\* pairs, with status "True" for the types in conds and "False" for the others
Pod(component, hostname, conds) ==
    [component |-> component, nodeName |-> hostname,
     conditions |-> {<<t, IF t \in conds THEN "True" ELSE "False">> : t \in requiredConditions}]

\* what the kubelet of a node may have brought up when the pods are looked at
PodScenarios(hostname) ==
    { {Pod(c, hostname, requiredConditions) : c \in Range(components)},
      {Pod(c, hostname, IF c = "kube-apiserver" THEN {"PodScheduled", "Initialized"}
                        ELSE requiredConditions) : c \in Range(components)},
      {Pod(c, hostname, requiredConditions) : c \in Range(components) \ {"kube-scheduler"}} }

\* ---------------------------------------------------------------- objects
\* A Machine of the management cluster. resourceVersion 0 is the empty string;
\* version and providerID are pointers: <<>> is nil, <<x>> points to x.
Machine(name, rv, version, providerID, annotations, image, ref) ==
    [name |-> name, resourceVersion |-> rv, version |-> version,
     providerID |-> providerID, annotations |-> annotations, image |-> image,
     infrastructureRef |-> ref, bootstrapRef |-> ref]

\* An infrastructure or bootstrap object a Machine refers to.
RefObject(name, rv, owned, hasProviderID) ==
    [name |-> name, resourceVersion |-> rv, ownerReferences |-> owned,
     providerID |-> hasProviderID]

\* A Node of the target cluster.
Node(k, addresses, zone) ==
    [name |-> Hostname(k), addresses |-> addresses,
     providerID |-> RawProviderID("aws", zone, k)]

Address(type, address) == [type |-> type, address |-> address]

\* An etcd member: numeric ID and name (the hostname of its node).
EtcdMember(k) == [ID |-> MemberID(k), name |-> Hostname(k)]

\* the skip test looking only for the annotation key, whatever its value
HasAnyUpgradeID(annotations) == \E a \in annotations : a[1] = UpgradeIDAnnotationKey

\* the skip test with the comparison turned round: val != u.upgradeID
HasOtherUpgradeID(annotations) ==
    \E a \in annotations : a[1] = UpgradeIDAnnotationKey /\ a[2] # upgradeID

\* annotations[UpgradeIDAnnotationKey] == u.upgradeID, annotations being a set of
\* <<key, value>> pairs with one value per key
HasUpgradeID(annotations) == <<UpgradeIDAnnotationKey, upgradeID>> \in annotations

SetAnnotation(annotations, key, value) ==
    {a \in annotations : a[1] # key} \cup {<<key, value>>}

\* a Go map as a set of <<key, value>> pairs; a missing key reads as the zero value
MapHas(m, k) == \E p \in m : p[1] = k
MapGet(m, k, zero) == IF MapHas(m, k) THEN (CHOOSE p \in m : p[1] = k)[2] ELSE zero

\* a string holding a YAML document: a mapping, written as its key/value pairs in the
\* order of the text, or something that is not a mapping
YamlDoc(pairs) == [mapping |-> TRUE, pairs |-> pairs]
NotYaml == [mapping |-> FALSE, pairs |-> <<>>]
\* v1.ConfigMap: its metadata and its Data, a map from key to text
ConfigMap(metadata, data) == [metadata |-> metadata, Data |-> data]
\* the kubeadm-config ConfigMap of a cluster at v1.13.7
InitialKubeadmConfig ==
    ConfigMap([name |-> "kubeadm-config", namespace |-> "kube-system"],
              {<<"ClusterConfiguration",
                 YamlDoc(<<<<"apiVersion", VString("kubeadm.k8s.io/v1beta1", <<>>)>>,
                           <<"clusterName", VString("test1", <<>>)>>,
                           <<"kind", VString("ClusterConfiguration", <<>>)>>,
                           <<"kubernetesVersion", VString("v", <<1, 13, 7>>)>>>>)>>,
               <<"ClusterStatus", YamlDoc(<<<<"kind", VString("ClusterStatus", <<>>)>>>>)>>})

\* ------------------------------------------------------------------- state
VARIABLES
    \* management cluster
    machines,           \* the Machine objects
    infraObjects,       \* the infrastructure objects
    bootstrapObjects,   \* the bootstrap config objects
    \* target cluster
    nodes,              \* the Node objects
    pods,               \* the control-plane static pods of kube-system
    etcdMembers,        \* the members of the etcd cluster
    kubeadmConfig,      \* the kubeadm-config ConfigMap
    kubeletConfigMaps,  \* the kubelet-config-x.y ConfigMaps: <<<<x, y>>, data>>
    kubeletRbac,        \* <<kind, <<major, minor>>>> of the kubelet-config roles and bindings
    now,                \* the last value of time.Now().Unix() that was observed
    nextInstance,       \* the next compute instance the infrastructure hands out
    \* configuration of the run (base / Config, MachineCreator options)
    config,
    \* ControlPlaneUpgrader fields
    desiredVersion, oldNodeToEtcdMember, providerIDsToNodes,
    \* the run: position, outcome, locals of Upgrade / updateCRDs / updateMachine / NewMachine
    pc, result, run, items, idx, min, max,
    name, machine, newMachine, node, oldHostName, nodeHostname, providerID, polls,
    \* history of the current run
    log,                \* its writes to the clusters and to etcd, in order
    atStart,            \* the Machines, objects, members and kubeadm-config it started from
    preUpgradeMembers,  \* the etcd membership when oldNodeToEtcdMemberId read it
    snapshotLog,        \* the length of log at each time oldNodeToEtcdMemberId read it
    submitted,          \* the Create requests of NewMachine: source, new name, object
    stages,             \* the stages the current call of NewMachine has entered
    returned,           \* what NewMachine returned on success, and what held then
    rejected,           \* the new Machines whose annotation Patch the API rejected
    \* history of all runs
    finished,           \* the new Machines for which updateMachine returned nil
    \* the worker upgrade (MachineDeploymentUpgrader)
    scope,              \* which upgrader the tool runs: "controlPlane" or "machineDeployments"
    machineDeployments, \* the MachineDeployment objects of the management cluster
    deployments,        \* the list Upgrade got from listMachineDeployments
    mdIdx,              \* how many items of it upgradeMachineDeployments has passed
    upgraded,           \* the first run of the worker upgrade that returned nil, or 0
    \* a call of one of the pure functions: its name, arguments and result
    call

world == <<machines, infraObjects, bootstrapObjects, nodes, pods, etcdMembers,
           kubeadmConfig, kubeletConfigMaps, kubeletRbac, now, nextInstance>>
upgrader == <<desiredVersion, oldNodeToEtcdMember, providerIDsToNodes>>
upgradeLocals == <<items, idx, min, max>>
replaceLocals == <<name, machine, newMachine, node, oldHostName, nodeHostname, providerID, polls>>
locals == <<upgradeLocals, replaceLocals>>
replaced == <<finished, rejected>>
calls == <<submitted, stages, returned>>
captured == <<preUpgradeMembers, snapshotLog>>
history == <<log, replaced, calls, captured, atStart>>
workers == <<scope, machineDeployments, deployments, mdIdx, upgraded>>
vars == <<world, config, upgrader, pc, result, run, locals, history, workers, call>>

\* ------------------------------------------------------------------- Init
V1137 == VString("", <<1, 13, 7>>)
V1138 == VString("", <<1, 13, 8>>)

\* what a listed Machine of the initial fleet looks like
Kinds == {"plain", "annotated", "otherUpgrade", "noProviderID", "badName"}

InitialMachine(k, kind) ==
    Machine(IF kind = "badName" THEN <<"controlplane">> ELSE <<"cp", k>>,
            k,
            IF k = NumMachines THEN <<V1138>> ELSE <<V1137>>,
            IF kind = "noProviderID" THEN <<>> ELSE <<RawProviderID("aws", "a", k)>>,
            CASE kind = "annotated" -> {<<UpgradeIDAnnotationKey, upgradeID>>}
              [] kind = "otherUpgrade" -> {<<UpgradeIDAnnotationKey, "u0">>}
              [] OTHER -> {},
            {<<"ami", "ami-old">>},
            <<"cp", k>>)

\* the instances of the initial fleet that were provisioned
Provisioned(fleet) == {k \in DOMAIN fleet : fleet[k] # "noProviderID"}

\* the configurations of a run: the user's version (or none), the image override, and
\* the wait stages the MachineCreator is built with
AllConfigs ==
    [userVersion : {unsetVersion, SemVer(1, 14, 3)},
     imageField : {"", "ami"},
     imageID : {"", "ami-new"},
     shouldWaitForProviderID : BOOLEAN,
     shouldWaitForMatchingNode : BOOLEAN,
     shouldWaitForNodeReady : BOOLEAN]

\* the configurations of the runs of Upgrade: each setting of the image override and a
\* version set by the user with all the waits, and each setting of the waits
Configs ==
    {c \in AllConfigs :
        /\ (c.userVersion # unsetVersion) => (c.imageField # "" /\ c.imageID # "")
        /\ \/ /\ c.shouldWaitForProviderID /\ c.shouldWaitForMatchingNode
              /\ c.shouldWaitForNodeReady
           \/ (c.imageField = "" /\ c.imageID = "")}

\* MachineDeployment: its name, and of its Machine template the version (a pointer),
\* the annotations and the image fields of the spec
MachineDeployment(mdName, version, annotations, image) ==
    [name |-> mdName, version |-> version, annotations |-> annotations, image |-> image]

\* what a listed MachineDeployment of the initial fleet looks like
DeploymentKinds == {"plain", "annotated", "otherUpgrade"}

InitialDeployment(k, kind) ==
    MachineDeployment(<<"md", k>>, <<V1137>>,
                      CASE kind = "annotated" -> {<<UpgradeIDAnnotationKey, upgradeID>>}
                        [] kind = "otherUpgrade" -> {<<UpgradeIDAnnotationKey, "u0">>}
                        [] OTHER -> {},
                      {<<"ami", "ami-old">>})

\* the fleets a run can find: none at all, or NumMachines (NumDeployments) of any kind
Fleets == UNION {[1..n -> Kinds] : n \in {0, NumMachines}}
DeploymentFleets == UNION {[1..n -> DeploymentKinds] : n \in {0, NumDeployments}}
PlainFleet == [k \in 1..NumMachines |-> "plain"]

\* the configurations of the runs of the worker upgrade, which creates no Machine
WorkerConfigs ==
    {c \in Configs : /\ c.shouldWaitForProviderID /\ c.shouldWaitForMatchingNode
                     /\ c.shouldWaitForNodeReady}

\* no pure function has been called
NoCall == [fn |-> "", args |-> <<>>, ret |-> <<>>]

NoMachine == Machine(<<>>, 0, <<>>, <<>>, {}, {}, <<>>)

LocalsInit ==
    /\ items = <<>>
    /\ idx = 0
    /\ min = unsetVersion
    /\ max = unsetVersion
    /\ name = <<>>
    /\ machine = NoMachine
    /\ newMachine = NoMachine
    /\ node = <<>>
    /\ oldHostName = NoHostname
    /\ nodeHostname = NoHostname
    /\ providerID = EmptyProviderID
    /\ polls = 0

Init ==
    /\ scope \in {"controlPlane", "machineDeployments"}
    /\ config \in IF scope = "controlPlane" THEN Configs ELSE WorkerConfigs
    /\ \E fleet \in IF scope = "controlPlane" THEN Fleets ELSE {PlainFleet} :
        /\ Cardinality({k \in DOMAIN fleet : fleet[k] = "badName"}) <= 1
        /\ machines = {InitialMachine(k, fleet[k]) : k \in DOMAIN fleet}
        /\ infraObjects = {RefObject(<<"cp", k>>, k, TRUE, k \in Provisioned(fleet)) : k \in DOMAIN fleet}
        /\ bootstrapObjects = {RefObject(<<"cp", k>>, k, TRUE, FALSE) : k \in DOMAIN fleet}
        /\ nodes = {Node(k, <<Address(NodeInternalIP, Hostname(k)), Address(NodeHostName, Hostname(k))>>, "")
                      : k \in Provisioned(fleet)}
        /\ pods = {Pod(c, Hostname(k), requiredConditions)
                      : c \in Range(components), k \in Provisioned(fleet)}
        /\ etcdMembers = {EtcdMember(k) : k \in Provisioned(fleet)}
    /\ kubeadmConfig = InitialKubeadmConfig
    /\ kubeletConfigMaps \in {{<<<<1, 13>>, "kubelet">>}} \cup
                             (IF config.userVersion = unsetVersion THEN {} ELSE {{}})
    /\ kubeletRbac = {<<"Role", <<1, 13>>>>, <<"RoleBinding", <<1, 13>>>>}
    /\ now = 1
    /\ nextInstance = NumMachines + 1
    /\ desiredVersion = config.userVersion
    /\ oldNodeToEtcdMember = {}
    /\ providerIDsToNodes = {}
    /\ pc = "idle"
    /\ result = [value |-> "none", at |-> ""]
    /\ run = 0
    /\ LocalsInit
    /\ log = <<>>
    /\ atStart = <<machines, infraObjects, bootstrapObjects, etcdMembers, kubeadmConfig>>
    /\ preUpgradeMembers = {}
    /\ snapshotLog = <<>>
    /\ submitted = <<>>
    /\ stages = <<>>
    /\ returned = {}
    /\ rejected = {}
    /\ finished = {}
    /\ \E fleet \in IF scope = "controlPlane" THEN {<<>>} ELSE DeploymentFleets :
          machineDeployments = {InitialDeployment(k, fleet[k]) : k \in DOMAIN fleet}
    /\ deployments = <<>>
    /\ mdIdx = 0
    /\ upgraded = 0
    /\ call = NoCall

\* ------------------------------------------------------------------ helpers

\* one write of the run to an external system: the operation, the listed Machine it is
\* done for, the new name it writes, and for a member removal the numeric id of the
\* member etcd removed and the hostname of the old Node
LogEntry(op, obj, new, member, host) ==
    [op |-> op, obj |-> obj, new |-> new, member |-> member, host |-> host]

\* a write to the target cluster that is not for one Machine
ClusterWrite(op) == LogEntry(op, <<>>, <<>>, 0, NoHostname)

Ops(l) == {l[j].op : j \in 1..Len(l)}

\* the order in which the API lists Machines: by index, then by timestamp
NameKey(n) == <<IF Len(n) >= 2 THEN n[2] ELSE 0, IF Len(n) >= 3 THEN n[3] ELSE 0>>
KeyLess(a, b) == a[1] < b[1] \/ (a[1] = b[1] /\ a[2] < b[2])

RECURSIVE ListOf(_)
ListOf(ms) ==
    IF ms = {} THEN <<>>
    ELSE LET first == CHOOSE m \in ms :
                        \A o \in ms \ {m} : KeyLess(NameKey(m.name), NameKey(o.name))
         IN <<first>> \o ListOf(ms \ {first})

\* the locals of a run that has not started or has ended
ResetLocals ==
    /\ items' = <<>>
    /\ idx' = 0
    /\ min' = unsetVersion
    /\ max' = unsetVersion
    /\ name' = <<>>
    /\ machine' = NoMachine
    /\ newMachine' = NoMachine
    /\ node' = <<>>
    /\ oldHostName' = NoHostname
    /\ nodeHostname' = NoHostname
    /\ providerID' = EmptyProviderID
    /\ polls' = 0

\* Upgrade returns res ("ok" or "error"), or the process ends ("panic", "crash"),
\* at the step the run is at
Return(res) ==
    /\ pc' = "done"
    /\ result' = [value |-> res, at |-> pc]
    /\ ResetLocals

\* ----------------------------------------------------------------- Upgrade
\* A run of the tool starts: NewControlPlaneUpgrader, then Upgrade.
StartRun ==
    /\ pc \in {"idle", "done"}
    /\ scope = "controlPlane"
    /\ UNCHANGED <<workers, call>>
    /\ run < MaxRuns
    /\ run' = run + 1
    /\ pc' = "listMachines"
    /\ result' = [value |-> "none", at |-> ""]
    /\ desiredVersion' = config.userVersion
    /\ oldNodeToEtcdMember' = {}
    /\ providerIDsToNodes' = {}
    /\ ResetLocals
    /\ log' = <<>>
    /\ atStart' = <<machines, infraObjects, bootstrapObjects, etcdMembers, kubeadmConfig>>
    /\ preUpgradeMembers' = {}
    /\ snapshotLog' = <<>>
    /\ submitted' = <<>>
    /\ stages' = <<>>
    /\ returned' = {}
    /\ rejected' = {}
    /\ UNCHANGED <<world, config, finished>>

\* The process is killed in the middle of a run: what it wrote stays written, the
\* record of the run is gone.
Crash ==
    /\ pc \notin {"idle", "done"}
    /\ UNCHANGED <<workers, call>>
    /\ pc' = "done"
    /\ result' = [value |-> "crash", at |-> ""]
    /\ ResetLocals
    /\ desiredVersion' = config.userVersion
    /\ oldNodeToEtcdMember' = {}
    /\ providerIDsToNodes' = {}
    /\ log' = <<>>
    /\ preUpgradeMembers' = {}
    /\ snapshotLog' = <<>>
    /\ submitted' = <<>>
    /\ stages' = <<>>
    /\ returned' = {}
    /\ rejected' = {}
    /\ UNCHANGED <<world, config, run, atStart, finished>>

\* Upgrade going on with whatever listMachines returned, an empty list included
ListMachinesAnyFleet ==
    /\ pc = "listMachines"
    /\ UNCHANGED <<workers, call>>
    /\ \/ /\ Return("error")
          /\ UNCHANGED <<world, config, upgrader, run, history>>
       \/ /\ items' = ListOf(machines)
          /\ pc' = "versions"
          /\ UNCHANGED <<world, config, upgrader, result, run, idx, min, max, replaceLocals,
                         history>>

\* Upgrade: listMachines and the empty-fleet check.
ListMachines ==
    /\ pc = "listMachines"
    /\ UNCHANGED <<workers, call>>
    /\ \/ /\ Return("error")                      \* error listing machines
          /\ UNCHANGED <<world, config, upgrader, run, history>>
       \/ /\ machines = {}
          /\ Return("error")                      \* Found 0 control plane machines
          /\ UNCHANGED <<world, config, upgrader, run, history>>
       \/ /\ machines # {}
          /\ items' = ListOf(machines)
          /\ pc' = "versions"
          /\ UNCHANGED <<world, config, upgrader, result, run, idx, min, max, replaceLocals,
                         history>>

\* minMaxControlPlaneVersions over the first n Machines of the list, lines 249-268.
\* Spec.Version is a pointer that the loop dereferences: a nil one ends the process.
RECURSIVE MinMax(_, _)
MinMax(list, n) ==
    IF n = 0 THEN [min |-> unsetVersion, max |-> unsetVersion, ok |-> TRUE, panic |-> FALSE]
    ELSE LET before == MinMax(list, n - 1)
             pointer == list[n].version
             version == pointer[1]
             v == ParseTolerant(version)
         IN IF before.panic \/ ~before.ok THEN before
            ELSE IF pointer = <<>> THEN [before EXCEPT !.panic = TRUE, !.ok = FALSE]
            ELSE IF version = EmptyString THEN before
            ELSE IF ~ParseTolerantOk(version) THEN [before EXCEPT !.ok = FALSE]
            ELSE [min |-> IF before.min = unsetVersion \/ VersionLT(v, before.min)
                          THEN v ELSE before.min,
                  max |-> IF before.max = unsetVersion \/ VersionGT(v, before.max)
                          THEN v ELSE before.max,
                  ok |-> TRUE, panic |-> FALSE]

minMaxControlPlaneVersions(list) == MinMax(list, Len(list))

\* any step up of the version taken for a minor-version upgrade
isVersionUpgrade(base, update) == VersionLT(base, update)
isMinorVersionUpgrade(base, update) == base.Major = update.Major /\ base.Minor < update.Minor

\* the steps with the kubeadm configuration persisted after the Machines are processed
UpgradeStepsConfigLast == <<"healthCheck", "updateNodes", "updateCRDs", "kubeadmConfig">>
\* the steps with the kubeadm configuration persisted before the health check
UpgradeStepsConfigFirst == <<"kubeadmConfig", "healthCheck", "updateNodes", "updateCRDs">>
\* Upgrade, lines 230-242: the steps that follow the kubelet migration, in order;
\* "updateCRDs" is the member snapshot and the loop over the Machines
UpgradeSteps == <<"healthCheck", "updateNodes", "kubeadmConfig", "updateCRDs">>

\* the step after a step of UpgradeSteps; after the last one Upgrade returns
StepAfter(step) ==
    LET j == CHOOSE j \in 1..Len(UpgradeSteps) : UpgradeSteps[j] = step
    IN IF j = Len(UpgradeSteps) THEN "return" ELSE UpgradeSteps[j + 1]

\* Upgrade: the version range of the fleet, and the default of the desired version.
Versions ==
    /\ pc = "versions"
    /\ UNCHANGED <<workers, call>>
    /\ LET mm == minMaxControlPlaneVersions(items)
           desired == IF unsetVersion = config.userVersion THEN mm.max ELSE desiredVersion
       IN IF ~mm.ok
          THEN /\ Return(IF mm.panic THEN "panic" ELSE "error")
               /\ UNCHANGED <<world, config, upgrader, run, history>>
          ELSE /\ min' = mm.min
               /\ max' = mm.max
               /\ desiredVersion' = desired
               /\ pc' = IF isMinorVersionUpgrade(mm.min, desired)
                        THEN "kubeletConfigMap" ELSE UpgradeSteps[1]
               /\ UNCHANGED <<world, config, oldNodeToEtcdMember, providerIDsToNodes, result,
                              run, items, idx, replaceLocals, history>>

\* updateKubeletConfigMapIfNeeded(u.desiredVersion)
updateKubeletConfigMapIfNeeded ==
    /\ pc = "kubeletConfigMap"
    /\ UNCHANGED <<workers, call>>
    /\ LET desired == <<desiredVersion.Major, desiredVersion.Minor>>
           previous == <<desiredVersion.Major, desiredVersion.Minor - 1>>
           \* the ConfigMap Create submits: the one read, or the empty object a failed Get leaves
           created(data) == <<desired, data>>
       IN \/ /\ MapHas(kubeletConfigMaps, desired)            \* already exists
             /\ pc' = "kubeletRbac"
             /\ UNCHANGED <<world, config, upgrader, result, run, locals, history>>
          \/ /\ ~MapHas(kubeletConfigMaps, desired)
             /\ ~MapHas(kubeletConfigMaps, previous)          \* unable to find current configmap
             /\ Return("error")
             /\ UNCHANGED <<world, config, upgrader, run, history>>
          \/ /\ ~MapHas(kubeletConfigMaps, desired)
             /\ \E data \in {MapGet(kubeletConfigMaps, previous, ""), ""} :
                   \* "" : the Get failed with another error than NotFound, which is not checked
                   /\ MapHas(kubeletConfigMaps, previous) \/ data = ""
                   /\ \/ /\ kubeletConfigMaps' = kubeletConfigMaps \cup {created(data)}
                         /\ log' = Append(log, ClusterWrite("createConfigMap"))
                         /\ pc' = "kubeletRbac"
                         /\ UNCHANGED <<machines, infraObjects, bootstrapObjects, nodes, pods,
                                        etcdMembers, kubeadmConfig, kubeletRbac, now, nextInstance,
                                        config, upgrader, result, run, locals, replaced, calls, captured, atStart>>
                      \/ /\ Return("error")                   \* error creating configmap
                         /\ UNCHANGED <<world, config, upgrader, run, history>>
                      \* IsAlreadyExists: another client created it after the first Get
                      \/ /\ kubeletConfigMaps' = kubeletConfigMaps \cup {<<desired, "kubelet">>}
                         /\ pc' = "kubeletRbac"
                         /\ UNCHANGED <<machines, infraObjects, bootstrapObjects, nodes, pods,
                                        etcdMembers, kubeadmConfig, kubeletRbac, now, nextInstance,
                                        config, upgrader, result, run, locals, history>>
          \/ /\ Return("error")                               \* error determining if it exists
             /\ UNCHANGED <<world, config, upgrader, run, history>>

\* updateKubeletRbacIfNeeded(u.desiredVersion): the Role, then the RoleBinding
updateKubeletRbacIfNeeded ==
    /\ pc = "kubeletRbac"
    /\ UNCHANGED <<workers, call>>
    /\ LET mm == <<desiredVersion.Major, desiredVersion.Minor>>
           role == <<"Role", mm>>
           binding == <<"RoleBinding", mm>>
           creates(rbac) == IF rbac \in kubeletRbac THEN <<>>
                            ELSE <<ClusterWrite("create" \o rbac[1])>>
       IN \/ /\ Return("error")                               \* the Role's Get or Create fails
             /\ UNCHANGED <<world, config, upgrader, run, history>>
          \/ /\ Return("error")                               \* the RoleBinding's Get or Create fails
             /\ kubeletRbac' = kubeletRbac \cup {role}
             /\ log' = log \o creates(role)
             /\ UNCHANGED <<machines, infraObjects, bootstrapObjects, nodes, pods, etcdMembers,
                            kubeadmConfig, kubeletConfigMaps, now, nextInstance, config,
                            upgrader, run, replaced, calls, captured, atStart>>
          \/ /\ kubeletRbac' = kubeletRbac \cup {role, binding}
             /\ log' = log \o creates(role) \o creates(binding)
             /\ pc' = UpgradeSteps[1]
             /\ UNCHANGED <<machines, infraObjects, bootstrapObjects, nodes, pods, etcdMembers,
                            kubeadmConfig, kubeletConfigMaps, now, nextInstance, config,
                            upgrader, result, run, locals, replaced, calls, captured, atStart>>

\* listEtcdPods: the pods of kube-system labelled component=etcd
listEtcdPods == {p \in pods : p.component = "etcd"}

\* etcdClusterHealthCheck: listEtcdMembers, then "endpoint health" on the first etcd pod.
\* It fails when the pods cannot be listed, none exists, the member listing fails or
\* cannot be parsed, or the health command fails.
etcdClusterHealthCheck ==
    /\ pc = "healthCheck"
    /\ UNCHANGED <<workers, call>>
    /\ \/ /\ Return("error")
          /\ UNCHANGED <<world, config, upgrader, run, history>>
       \/ /\ listEtcdPods # {}
          /\ pc' = StepAfter("healthCheck")
          /\ UNCHANGED <<world, config, upgrader, result, run, locals, history>>

\* base.UpdateProviderIDsToNodes: the map from provider ID to Node, from a Node listing
ProviderIDsToNodes == {<<NewProviderID(n.providerID).id, n>> : n \in nodes}

\* base.GetNodeFromProviderID: the Node recorded for the id, or nil
GetNodeFromProviderID(id) ==
    IF MapHas(providerIDsToNodes, id) THEN <<MapGet(providerIDsToNodes, id, <<>>)>> ELSE <<>>

\* Upgrade: u.UpdateProviderIDsToNodes()
UpdateProviderIDsToNodes ==
    /\ pc = "updateNodes"
    /\ UNCHANGED <<workers, call>>
    /\ \/ /\ Return("error")
          /\ UNCHANGED <<world, config, upgrader, run, history>>
       \/ /\ providerIDsToNodes' = ProviderIDsToNodes
          /\ pc' = StepAfter("updateNodes")
          /\ UNCHANGED <<world, config, desiredVersion, oldNodeToEtcdMember, result, run,
                         locals, history>>

\* the keys of ClusterConfiguration, in the order yaml.Marshal writes them (sorted)
YamlKeys == <<"apiVersion", "clusterName", "kind", "kubernetesVersion">>
\* yaml.Unmarshal into a map[string]interface{}: fails unless the text is a mapping
YamlUnmarshalOk(doc) == doc.mapping
YamlUnmarshal(doc) == {doc.pairs[j] : j \in 1..Len(doc.pairs)}
\* yaml.Marshal of a map: its entries in the order of their keys
YamlMarshal(m) ==
    LET keys == SelectSeq(YamlKeys, LAMBDA k : MapHas(m, k))
    IN  YamlDoc([j \in 1..Len(keys) |-> <<keys[j], MapGet(m, keys[j], EmptyString)>>])
\* the variant that also drops every other key of Data
updateKubeadmKubernetesVersionOnly(original, version) ==
    LET text == MapGet(original.Data, "ClusterConfiguration", YamlDoc(<<>>))
        clusterConfig == SetAnnotation(YamlUnmarshal(text), "kubernetesVersion", version)
    IN  IF ~YamlUnmarshalOk(text)
        THEN [cm |-> <<>>, err |-> TRUE, original |-> original]
        ELSE [cm |-> <<ConfigMap(original.metadata,
                                 {<<"ClusterConfiguration", YamlMarshal(clusterConfig)>>})>>,
              err |-> FALSE, original |-> original]
\* updateKubeadmKubernetesVersion: on a deep copy of the ConfigMap, decode
\* Data["ClusterConfiguration"], set its kubernetesVersion, encode it and store it back;
\* returns the copy (or nil and an error) and leaves `original` as it was
updateKubeadmKubernetesVersion(original, version) ==
    LET cm == original
        text == MapGet(cm.Data, "ClusterConfiguration", YamlDoc(<<>>))
        clusterConfig == SetAnnotation(YamlUnmarshal(text), "kubernetesVersion", version)
        updated == YamlMarshal(clusterConfig)
    IN  IF ~YamlUnmarshalOk(text)
        THEN [cm |-> <<>>, err |-> TRUE, original |-> original]
        ELSE [cm |-> <<[cm EXCEPT !.Data = SetAnnotation(cm.Data, "ClusterConfiguration",
                                                        updated)]>>,
              err |-> FALSE, original |-> original]

\* "v" + u.desiredVersion.String()
KubeadmVersion(v) == VString("v", VersionString(v).nums)

\* updateAndUploadKubeadmKubernetesVersion: Get, rewrite, Update
updateAndUploadKubeadmKubernetesVersion ==
    /\ pc = "kubeadmConfig"
    /\ UNCHANGED <<workers, call>>
    /\ \/ /\ Return("error")                      \* the Get or the Update fails
          /\ UNCHANGED <<world, config, upgrader, run, history>>
       \/ /\ LET updated == updateKubeadmKubernetesVersion(kubeadmConfig,
                                                           KubeadmVersion(desiredVersion))
             IN  /\ ~updated.err
                 /\ kubeadmConfig' = updated.cm[1]
          /\ log' = Append(log, ClusterWrite("updateKubeadmConfig"))
          /\ IF StepAfter("kubeadmConfig") = "return"
             THEN Return("ok")
             ELSE /\ pc' = StepAfter("kubeadmConfig")
                  /\ UNCHANGED <<result, locals>>
          /\ UNCHANGED <<machines, infraObjects, bootstrapObjects, nodes, pods, etcdMembers,
                         kubeletConfigMaps, kubeletRbac, now, nextInstance, config, upgrader,
                         run, replaced, calls, captured, atStart>>

\* the member ids written in base 10
EtcdMemberIdsDecimal(members) == {<<m.name, FormatUint(m.ID, 10)>> : m \in members}
\* oldNodeToEtcdMemberId: member name -> member id in base 16, from a member listing
EtcdMemberIds(members) == {<<m.name, FormatUint(m.ID, 16)>> : m \in members}

\* updateCRDs: save all etcd member ids before the upgrade starts
oldNodeToEtcdMemberId ==
    /\ pc = "updateCRDs"
    /\ UNCHANGED <<workers, call>>
    /\ \/ /\ Return("error")                      \* listEtcdMembers fails
          /\ UNCHANGED <<world, config, upgrader, run, history>>
       \/ /\ listEtcdPods # {}
          /\ oldNodeToEtcdMember' = EtcdMemberIds(etcdMembers)
          /\ preUpgradeMembers' = etcdMembers
          /\ snapshotLog' = Append(snapshotLog, Len(log))
          /\ pc' = "loop"
          /\ UNCHANGED <<world, config, desiredVersion, providerIDsToNodes, result, run,
                         locals, log, replaced, calls, atStart>>

\* ---------------------------------------------------------------- updateCRDs
\* the API server accepts a Create: no resourceVersion set, and the name is free
CreateAccepted(store, obj) ==
    obj.resourceVersion = 0 /\ \A o \in store : o.name # obj.name

\* the object as the API server stores it: with a resourceVersion
Stored(obj) == [obj EXCEPT !.resourceVersion = 1]

\* updateCRDs, loop head: the next Machine of the list; skip it when it carries the
\* upgrade id or has no provider ID, else derive the new name from its name.
NextMachine ==
    /\ pc = "loop"
    /\ UNCHANGED <<workers, call>>
    /\ IF idx = Len(items)
       THEN /\ IF StepAfter("updateCRDs") = "return"
               THEN Return("ok")
               ELSE /\ pc' = StepAfter("updateCRDs")
                    /\ UNCHANGED <<result, locals>>
            /\ UNCHANGED <<world, config, upgrader, run, history>>
       ELSE LET m == items[idx + 1]
            IN IF HasUpgradeID(m.annotations) \/ m.providerID = <<>>
               THEN /\ idx' = idx + 1
                    /\ UNCHANGED <<world, config, upgrader, pc, result, run, items, min, max,
                                   replaceLocals, history>>
               ELSE IF Len(m.name) < 2
               THEN /\ Return("error")        \* the name is not <name>-<index>
                    /\ UNCHANGED <<world, config, upgrader, run, history>>
               ELSE \E t \in now..MaxClock :
                    /\ idx' = idx + 1
                    /\ now' = t
                    /\ name' = <<m.name[1], m.name[2], t>>
                    /\ machine' = m
                    /\ pc' = "infrastructureRef"
                    /\ UNCHANGED <<machines, infraObjects, bootstrapObjects, nodes, pods,
                                   etcdMembers, kubeadmConfig, kubeletConfigMaps, kubeletRbac,
                                   nextInstance, config, upgrader, result, run, items, min,
                                   max, newMachine, node, oldHostName, nodeHostname,
                                   providerID, polls, history>>

\* updateObjectReference: the referenced object renamed, with resourceVersion, owner
\* references and spec.providerID cleared
updateObjectReference(newName, object) ==
    [object EXCEPT !.resourceVersion = 0, !.name = newName,
                   !.ownerReferences = FALSE, !.providerID = FALSE]

\* updateCRDs: clone the infrastructure object under the new name and create it.
UpdateInfrastructureRef ==
    /\ pc = "infrastructureRef"
    /\ UNCHANGED <<workers, call>>
    /\ \/ /\ Return("error")                  \* external.Get or Create fails
          /\ UNCHANGED <<world, config, upgrader, run, history>>
       \/ \E o \in infraObjects :
          /\ o.name = machine.infrastructureRef
          /\ LET object == updateObjectReference(name, o)
             IN /\ CreateAccepted(infraObjects, object)
                /\ infraObjects' = infraObjects \cup {Stored(object)}
                /\ log' = Append(log, LogEntry("createInfrastructure", machine.name, name, 0, NoHostname))
          /\ machine' = [machine EXCEPT !.infrastructureRef = name]
          /\ pc' = "bootstrapRef"
          /\ UNCHANGED <<machines, bootstrapObjects, nodes, pods, etcdMembers, kubeadmConfig,
                         kubeletConfigMaps, kubeletRbac, now, nextInstance, config, upgrader,
                         result, run, upgradeLocals, name, newMachine, node, oldHostName,
                         nodeHostname, providerID, polls, replaced, calls, captured, atStart>>

\* updateCRDs: rename the bootstrap reference; the renamed object is not created.
\* Bootstrap.ConfigRef is a pointer, shared by the listed item and its loop copy.
UpdateBootstrapRef ==
    /\ pc = "bootstrapRef"
    /\ UNCHANGED <<workers, call>>
    /\ \/ /\ Return("error")                  \* external.Get fails
          /\ UNCHANGED <<world, config, upgrader, run, history>>
       \/ /\ \E o \in bootstrapObjects : o.name = machine.bootstrapRef
          /\ machine' = [machine EXCEPT !.bootstrapRef = name]
          /\ items' = [items EXCEPT ![idx].bootstrapRef = name]
          /\ pc' = "updateMachine"
          /\ UNCHANGED <<world, config, upgrader, result, run, idx, min, max, name, newMachine,
                         node, oldHostName, nodeHostname, providerID, polls, history>>

\* ------------------------------------------------------------- updateMachine
\* updateMachine: the old Machine's provider ID, its Node and that Node's hostname
ResolveOldNode ==
    /\ pc = "updateMachine"
    /\ UNCHANGED <<workers, call>>
    /\ LET raw == machine.providerID[1]
           oldNode == GetNodeFromProviderID(NewProviderID(raw).id)
       IN IF ~NewProviderIDOk(raw) \/ oldNode = <<>>
          THEN /\ Return("error")             \* unknown previous node
               /\ UNCHANGED <<world, config, upgrader, run, history>>
          ELSE /\ oldHostName' = hostnameForNode(oldNode[1])
               /\ pc' = "newMachine"
               /\ UNCHANGED <<world, config, upgrader, result, run, upgradeLocals, name,
                              machine, newMachine, node, nodeHostname, providerID, polls,
                              history>>

\* ---------------------------------------------------------------- NewMachine
\* updateMachineSpecImage: the image field of the spec set to the image id
updateMachineSpecImage(image, field, id) == SetAnnotation(image, field, id)

\* NewMachine rewriting the image when the image field or the image id is configured
NewMachineObjectEitherImage(source, newName, options) ==
    LET cleared == [source EXCEPT !.resourceVersion = 0, !.providerID = <<>>, !.name = newName]
        imaged == IF options.ImageField # "" \/ options.ImageID # ""
                  THEN [cleared EXCEPT !.image = {a \in cleared.image : a[1] # options.ImageField}
                                                     \cup {<<options.ImageField, options.ImageID>>}]
                  ELSE cleared
    IN [source |-> source,
        object |-> [imaged EXCEPT !.version = <<VString("", <<options.DesiredVersion.Major,
                                      options.DesiredVersion.Minor, options.DesiredVersion.Patch>>)>>]]
\* NewMachine, lines 76-93: the object to create, built on a deep copy of the source.
\* The result names the source as the call leaves it and the object it submits.
NewMachineObject(source, newName, options) ==
    LET copy == source
        cleared == [copy EXCEPT !.resourceVersion = 0, !.providerID = <<>>, !.name = newName]
        imaged == IF options.ImageField # "" /\ options.ImageID # ""
                  THEN [cleared EXCEPT !.image = updateMachineSpecImage(cleared.image,
                                                    options.ImageField, options.ImageID)]
                  ELSE cleared
    IN [source |-> source,
        object |-> [imaged EXCEPT !.version = <<VersionString(options.DesiredVersion)>>]]

\* updateCRDs: the MachineOptions handed to NewMachineCreator
MachineOptions ==
    [ImageID |-> config.imageID, ImageField |-> config.imageField,
     DesiredVersion |-> desiredVersion]

\* isReady taking a component for healthy as soon as its pod exists
isReadyWhenPodsExist(hostname, unreadable) ==
    \A c \in Range(components) : \E p \in pods : p.component = c /\ p.nodeName = hostname

\* the loop of isReady from component j on, lines 213-241: Get the pod
\* <component>-<hostname>; not found or a failing Get (the components in unreadable)
\* is false; collect the types of the conditions with status "True"; a required
\* condition missing among them is false
RECURSIVE ComponentsReady(_, _, _)
ComponentsReady(hostname, unreadable, j) ==
    IF j > Len(components) THEN TRUE
    ELSE LET component == components[j]
             found == {p \in pods : p.component = component /\ p.nodeName = hostname}
             pod == CHOOSE p \in found : TRUE
             foundConditions == {c[1] : c \in {x \in pod.conditions : x[2] = "True"}}
             missingConditions == requiredConditions \ foundConditions
         IN  IF found = {} \/ component \in unreadable THEN FALSE
             ELSE IF missingConditions # {} THEN FALSE
             ELSE ComponentsReady(hostname, unreadable, j + 1)

\* isReady(nodeHostname) when the Gets of the pods of `unreadable` fail
isReadyReading(hostname, unreadable) == ComponentsReady(hostname, unreadable, 1)

\* isReady, without read errors
isReady(hostname) == isReadyReading(hostname, {})

\* the provider ID the management cluster holds for the Machine of that name
StoredProviderID(n) ==
    LET ms == {m \in machines : m.name = n}
    IN IF ms = {} THEN <<>> ELSE (CHOOSE m \in ms : TRUE).providerID

\* a successful return of NewMachine for the listed Machine being replaced: the new
\* Machine m and the Node n it returns, the stages st it went through, and what the
\* clusters held at that moment
NewMachineResult(m, n, st) ==
    [obj |-> machine.name, machine |-> m, node |-> n, stages |-> st,
     providerID |-> StoredProviderID(m.name),
     ready |-> n # <<>> /\ isReady(hostnameForNode(n[1]))]

\* NewMachine, lines 101-125: what follows the creation, the provider ID and the
\* matching Node; "resolveNewNode" is the return of (newMachine, node, nil) to updateMachine
\* updateCRDs taking the next Machine of the list as soon as the new one is created
StageNextMachine == "loop"
\* NewMachine testing each wait flag on its own: without the provider-ID wait it goes on
\* to the matching-node wait
StageAfterCreateFlat ==
    IF config.shouldWaitForProviderID THEN "waitForProviderID"
    ELSE IF config.shouldWaitForMatchingNode THEN "waitForMatchingNode" ELSE "resolveNewNode"

StageAfterCreate ==
    IF config.shouldWaitForProviderID THEN "waitForProviderID" ELSE "resolveNewNode"
StageAfterProviderID ==
    IF config.shouldWaitForMatchingNode THEN "waitForMatchingNode" ELSE "resolveNewNode"
\* NewMachine returning the matched Node without the wait for its components
StageWithoutNodeReady == "resolveNewNode"
\* NewMachine waiting for the Node's components whatever shouldWaitForNodeReady says
StageAlwaysNodeReady == "waitForNodeReady"
StageAfterMatchingNode ==
    IF config.shouldWaitForNodeReady THEN "waitForNodeReady" ELSE "resolveNewNode"

\* NewMachine goes on to a stage with the Node n it has so far (<<>> is nil)
Enter(stage, n) ==
    /\ pc' = stage
    /\ node' = n
    /\ polls' = 0
    /\ stages' = Append(stages, stage)
    /\ returned' = IF stage = "resolveNewNode"
                   THEN returned \cup {NewMachineResult(newMachine, n, Append(stages, stage))}
                   ELSE returned

\* NewMachine: build the new Machine and create it, lines 75-99; then enter the first wait.
CreateMachine ==
    /\ pc = "newMachine"
    /\ UNCHANGED <<workers, call>>
    /\ LET built == NewMachineObject(machine, name, MachineOptions)
       IN \/ /\ Return("error")               \* updateMachineSpecImage or Create fails
             /\ stages' = <<"create">>
             /\ UNCHANGED <<world, config, upgrader, run, log, replaced, submitted, returned,
                            captured, atStart>>
          \/ /\ CreateAccepted(machines, built.object)
             /\ machines' = machines \cup {Stored(built.object)}
             /\ machine' = built.source
             /\ newMachine' = Stored(built.object)
             /\ submitted' = Append(submitted, [source |-> machine, after |-> built.source,
                                              name |-> name, object |-> built.object])
             /\ log' = Append(log, LogEntry("createMachine", machine.name, name, 0, NoHostname))
             /\ pc' = StageAfterCreate
             /\ node' = <<>>
             /\ polls' = 0
             /\ stages' = <<"create", StageAfterCreate>>
             /\ returned' = IF StageAfterCreate = "resolveNewNode"
                            THEN returned \cup {NewMachineResult(Stored(built.object), <<>>,
                                                                 <<"create", StageAfterCreate>>)}
                            ELSE returned
             /\ UNCHANGED <<infraObjects, bootstrapObjects, nodes, pods, etcdMembers,
                            kubeadmConfig, kubeletConfigMaps, kubeletRbac, now, nextInstance,
                            config, upgrader, result, run, upgradeLocals, name, oldHostName,
                            nodeHostname, providerID, replaced, captured, atStart>>

\* a wait stage that sleeps and polls once more after its deadline has passed
PollAgainPastDeadline ==
    IF polls <= MaxPolls
    THEN /\ polls' = polls + 1
         /\ UNCHANGED <<world, config, upgrader, pc, result, run, upgradeLocals, name, machine,
                        newMachine, node, oldHostName, nodeHostname, providerID, history>>
    ELSE /\ Return("error")
         /\ UNCHANGED <<world, config, upgrader, run, history>>

\* a wait stage's poll found nothing: sleep and poll again, or the deadline has passed
PollAgain ==
    IF polls < MaxPolls
    THEN /\ polls' = polls + 1
         /\ UNCHANGED <<world, config, upgrader, pc, result, run, upgradeLocals, name, machine,
                        newMachine, node, oldHostName, nodeHostname, providerID, history>>
    ELSE /\ Return("error")                   \* timed out
         /\ UNCHANGED <<world, config, upgrader, run, history>>

\* the test of the poll with only the nil check
ProviderIDIsNil(m) == m.providerID = <<>>
\* the test of the poll, lines 138-147: Spec.ProviderID is nil or the empty string
ProviderIDIsUnset(m) == m.providerID = <<>> \/ m.providerID = <<EmptyProviderID>>

\* waitForProviderID: one poll, lines 131-148
waitForProviderID ==
    /\ pc = "waitForProviderID"
    /\ UNCHANGED <<workers, call>>
    /\ \/ /\ Return("error")                  \* the Get of the Machine fails
          /\ UNCHANGED <<world, config, upgrader, run, history>>
       \/ \E m \in machines :
          /\ m.name = newMachine.name
          /\ IF ProviderIDIsUnset(m)
             THEN PollAgain
             ELSE /\ providerID' = m.providerID[1]
                  /\ Enter(StageAfterProviderID, <<>>)
                  /\ UNCHANGED <<world, config, upgrader, result, run, upgradeLocals, name,
                                 machine, newMachine, oldHostName, nodeHostname, log, replaced,
                                 submitted, captured, atStart>>

\* the Nodes whose provider ID equals the target's, lines 169-180
MatchingNodes(target) ==
    {n \in nodes : ProviderIDEquals(target, NewProviderID(n.providerID))}

\* the orders in which a listing can return the objects of a set
ListingsOf(S) ==
    {l \in [1..Cardinality(S) -> S] : \A i, j \in DOMAIN l : i # j => l[i] # l[j]}

\* the scan of nodes.Items (nodeItems) from item j on, lines 169-180: an item whose provider ID
\* does not parse ends the poll with an error, the first item whose provider ID equals
\* the target's is the matching Node
RECURSIVE FirstMatch(_, _, _)
FirstMatch(nodeItems, target, j) ==
    IF j > Len(nodeItems)
    THEN [found |-> FALSE, err |-> FALSE, node |-> <<>>]
    ELSE IF ~NewProviderIDOk(nodeItems[j].providerID)
    THEN [found |-> FALSE, err |-> TRUE, node |-> <<>>]
    ELSE IF ProviderIDEquals(target, NewProviderID(nodeItems[j].providerID))
    THEN [found |-> TRUE, err |-> FALSE, node |-> <<nodeItems[j]>>]
    ELSE FirstMatch(nodeItems, target, j + 1)

\* waitForMatchingNode: one poll, lines 164-183
waitForMatchingNode ==
    /\ pc = "waitForMatchingNode"
    /\ UNCHANGED <<workers, call>>
    /\ \/ /\ Return("error")                  \* the Node listing fails
          /\ UNCHANGED <<world, config, upgrader, run, history>>
       \/ \E list \in ListingsOf(nodes) :
             LET scan == FirstMatch(list, NewProviderID(providerID), 1)
             IN  IF scan.err
                 THEN /\ Return("error")
                      /\ UNCHANGED <<world, config, upgrader, run, history>>
                 ELSE IF ~scan.found
                 THEN PollAgain
                 ELSE /\ Enter(StageAfterMatchingNode, scan.node)
                      /\ UNCHANGED <<world, config, upgrader, result, run, upgradeLocals, name,
                                     machine, newMachine, oldHostName, nodeHostname, providerID,
                                     log, replaced, submitted, captured, atStart>>

\* waitForNodeReady: the hostname check, then one poll, lines 190-205
waitForNodeReady ==
    /\ pc = "waitForNodeReady"
    /\ UNCHANGED <<workers, call>>
    /\ IF hostnameForNode(node[1]) = NoHostname
       THEN /\ Return("error")                \* unable to find hostname for node
            /\ UNCHANGED <<world, config, upgrader, run, history>>
       ELSE \E unreadable \in {{}} \cup {{c} : c \in Range(components)} :
            \/ /\ isReadyReading(hostnameForNode(node[1]), unreadable)
               /\ Enter("resolveNewNode", node)
               /\ UNCHANGED <<world, config, upgrader, result, run, upgradeLocals, name,
                              machine, newMachine, oldHostName, nodeHostname, providerID,
                              log, replaced, submitted, captured, atStart>>
            \/ /\ ~isReadyReading(hostnameForNode(node[1]), unreadable)
               /\ PollAgain

\* updateMachine, lines 426-431: the new Node's hostname, and the Node map again.
\* hostnameForNode dereferences its argument: a nil node ends the process.
ResolveNewNode ==
    /\ pc = "resolveNewNode"
    /\ UNCHANGED <<workers, call>>
    /\ IF node = <<>>
       THEN /\ Return("panic")
            /\ UNCHANGED <<world, config, upgrader, run, history>>
       ELSE \/ /\ Return("error")             \* UpdateProviderIDsToNodes fails
               /\ UNCHANGED <<world, config, upgrader, run, history>>
            \/ /\ nodeHostname' = hostnameForNode(node[1])
               /\ providerIDsToNodes' = ProviderIDsToNodes
               /\ pc' = "deleteEtcdMember"
               /\ UNCHANGED <<world, config, desiredVersion, oldNodeToEtcdMember, result, run,
                              upgradeLocals, name, machine, newMachine, node, oldHostName,
                              providerID, polls, history>>

\* etcd's answer to "member remove <id>": the membership without the member whose ID
\* is the hexadecimal number id; the command fails when there is no such member
RemoveAccepted(members, id) == id # <<>> /\ \E m \in members : m.ID = ParseHex(id)
RemoveMember(members, id) == {m \in members : m.ID # ParseHex(id)}

\* u.oldNodeToEtcdMember[oldHostName]
OldMemberId == MapGet(oldNodeToEtcdMember, oldHostName, <<>>)

\* deleteEtcdMember(newNode = nodeHostname, etcdMemberId = OldMemberId), lines 631-660
deleteEtcdMember ==
    /\ pc = "deleteEtcdMember"
    /\ UNCHANGED <<workers, call>>
    /\ \/ /\ Return("error")                  \* the pod listing fails
          /\ UNCHANGED <<world, config, upgrader, run, history>>
       \/ /\ listEtcdPods = {}                \* found 0 etcd pods
          /\ Return("error")
          /\ UNCHANGED <<world, config, upgrader, run, history>>
       \/ /\ listEtcdPods # {}
          /\ \A p \in listEtcdPods : p.nodeName # nodeHostname
          /\ Return("error")                  \* no new etcd pod found running on node
          /\ UNCHANGED <<world, config, upgrader, run, history>>
       \/ /\ \E p \in listEtcdPods : p.nodeName = nodeHostname
          /\ Return("error")                  \* "member remove <id>" is run in the pod and fails
          /\ log' = Append(log, LogEntry("memberRemoveFailed", machine.name, name,
                                          ParseHex(OldMemberId), oldHostName))
          /\ UNCHANGED <<world, config, upgrader, run, replaced, calls, captured, atStart>>
       \/ /\ \E p \in listEtcdPods : p.nodeName = nodeHostname
          /\ RemoveAccepted(etcdMembers, OldMemberId)
          /\ etcdMembers' = RemoveMember(etcdMembers, OldMemberId)
          /\ log' = Append(log, LogEntry("removeMember", machine.name, name, ParseHex(OldMemberId),
                                          oldHostName))
          /\ pc' = "deleteMachine"
          /\ UNCHANGED <<machines, infraObjects, bootstrapObjects, nodes, pods, kubeadmConfig,
                         kubeletConfigMaps, kubeletRbac, now, nextInstance, config, upgrader,
                         result, run, locals, replaced, calls, captured, atStart>>

\* deleteMachine(&machine): the Delete of the old Machine, by its name. With the
\* Machine its instance goes, and with the instance its static pods.
deleteMachine ==
    /\ pc = "deleteMachine"
    /\ UNCHANGED <<workers, call>>
    /\ \/ /\ Return("error")                  \* the Delete fails
          /\ UNCHANGED <<world, config, upgrader, run, history>>
       \/ /\ \E m \in machines : m.name = machine.name
          /\ machines' = {m \in machines : m.name # machine.name}
          /\ pods' = {p \in pods : p.nodeName # oldHostName}
          /\ log' = Append(log, LogEntry("deleteMachine", machine.name, name, 0, NoHostname))
          /\ pc' = "applyAnnotation"
          /\ UNCHANGED <<infraObjects, bootstrapObjects, nodes, etcdMembers, kubeadmConfig,
                         kubeletConfigMaps, kubeletRbac, now, nextInstance, config, upgrader,
                         result, run, locals, replaced, calls, captured, atStart>>

\* the Machines after a merge patch that sets the upgrade-id annotation of one of them
Patched(ms, target) ==
    {IF m.name = target
     THEN [m EXCEPT !.annotations = SetAnnotation(m.annotations, UpgradeIDAnnotationKey, upgradeID)]
     ELSE m : m \in ms}

\* what applyAnnotation returns when the API answers the Patch with accepted: the
\* result of Patch is dropped (line 527), nil is returned (line 529)
applyAnnotationResult(accepted) == "nil"

\* applyAnnotation(newMachine): one Patch, lines 518-530; back to the loop of updateCRDs
applyAnnotation ==
    /\ pc = "applyAnnotation"
    /\ UNCHANGED <<workers, call>>
    /\ \E accepted \in BOOLEAN :
       /\ accepted => \E m \in machines : m.name = newMachine.name
       /\ machines' = IF accepted THEN Patched(machines, newMachine.name) ELSE machines
       /\ rejected' = IF accepted THEN rejected ELSE rejected \cup {newMachine.name}
       /\ log' = Append(log, LogEntry("patchMachine", machine.name, newMachine.name, 0, NoHostname))
       /\ IF applyAnnotationResult(accepted) = "nil"
          THEN /\ pc' = "loop"
               /\ result' = result
               /\ finished' = finished \cup {newMachine.name}
               /\ items' = items /\ idx' = idx /\ min' = min /\ max' = max
               /\ name' = <<>>
               /\ machine' = NoMachine
               /\ newMachine' = NoMachine
               /\ node' = <<>>
               /\ oldHostName' = NoHostname
               /\ nodeHostname' = NoHostname
               /\ providerID' = EmptyProviderID
               /\ polls' = 0
          ELSE /\ Return("error")
               /\ finished' = finished
    /\ UNCHANGED <<infraObjects, bootstrapObjects, nodes, pods, etcdMembers, kubeadmConfig,
                   kubeletConfigMaps, kubeletRbac, now, nextInstance, config, upgrader, run,
                   calls, captured, atStart>>

\* -------------------------------------------------------------- environment
\* The infrastructure provider gives the new Machine its provider ID (or, first, an
\* empty one) while NewMachine waits for it.
InfraAssignsProviderID ==
    /\ pc = "waitForProviderID"
    /\ UNCHANGED <<workers, call>>
    /\ \E m \in machines :
       /\ m.name = newMachine.name
       /\ \/ /\ m.providerID = <<>>
             /\ machines' = (machines \ {m}) \cup {[m EXCEPT !.providerID = <<EmptyProviderID>>]}
             /\ UNCHANGED nextInstance
          \/ /\ m.providerID \in {<<>>, <<EmptyProviderID>>}
             /\ machines' = (machines \ {m}) \cup
                    {[m EXCEPT !.providerID = <<RawProviderID("aws", "a", nextInstance)>>]}
             /\ nextInstance' = nextInstance + 1
    /\ UNCHANGED <<infraObjects, bootstrapObjects, nodes, pods, etcdMembers, kubeadmConfig,
                   kubeletConfigMaps, kubeletRbac, now, config, upgrader, pc, result, run,
                   locals, history>>

\* The instance of the new Machine registers its Node, with or without an address of
\* type Hostname, while NewMachine waits for the Node.
NodeRegisters ==
    /\ pc = "waitForMatchingNode"
    /\ UNCHANGED <<workers, call>>
    /\ MatchingNodes(NewProviderID(providerID)) = {}
    /\ \E addresses \in {<<Address(NodeInternalIP, Hostname(providerID.id)),
                           Address(NodeHostName, Hostname(providerID.id))>>,
                         <<Address(NodeInternalIP, Hostname(providerID.id))>>} :
       nodes' = nodes \cup {Node(providerID.id, addresses, "")}
    /\ UNCHANGED <<machines, infraObjects, bootstrapObjects, pods, etcdMembers, kubeadmConfig,
                   kubeletConfigMaps, kubeletRbac, now, nextInstance, config, upgrader, pc,
                   result, run, locals, history>>

\* The kubelet of the new Node starts the static pods; the etcd of the Node has joined
\* the cluster as a member named after the Node.
KubeletStartsPods ==
    /\ pc \in {"waitForNodeReady", "deleteEtcdMember"}
    /\ UNCHANGED <<workers, call>>
    /\ node # <<>>
    /\ hostnameForNode(node[1]) # NoHostname
    /\ ~isReady(hostnameForNode(node[1]))
    /\ \E started \in PodScenarios(hostnameForNode(node[1])) :
       pods' = {p \in pods : p.nodeName # hostnameForNode(node[1])} \cup started
    /\ etcdMembers' = etcdMembers \cup {EtcdMember(NewProviderID(node[1].providerID).id)}
    /\ UNCHANGED <<machines, infraObjects, bootstrapObjects, nodes, kubeadmConfig,
                   kubeletConfigMaps, kubeletRbac, now, nextInstance, config, upgrader, pc,
                   result, run, locals, history>>

\* ------------------------------------------------- MachineDeploymentUpgrader
\* A run of the worker upgrade starts: NewMachineDeploymentUpgrader, then Upgrade.
StartWorkerRun ==
    /\ pc \in {"idle", "done"}
    /\ scope = "machineDeployments"
    /\ run < MaxRuns
    /\ run' = run + 1
    /\ pc' = "listMachineDeployments"
    /\ result' = [value |-> "none", at |-> ""]
    /\ desiredVersion' = config.userVersion
    /\ deployments' = <<>>
    /\ mdIdx' = 0
    /\ log' = <<>>
    /\ UNCHANGED <<world, config, oldNodeToEtcdMember, providerIDsToNodes, locals, replaced,
                   calls, captured, atStart, scope, machineDeployments, upgraded, call>>

\* the order in which the API lists MachineDeployments: by name
RECURSIVE DeploymentListOf(_)
DeploymentListOf(mds) ==
    IF mds = {} THEN <<>>
    ELSE LET first == CHOOSE d \in mds : \A o \in mds \ {d} : d.name[2] < o.name[2]
         IN <<first>> \o DeploymentListOf(mds \ {first})

\* Upgrade of the worker upgrader: listMachineDeployments and the empty-list check.
ListMachineDeployments ==
    /\ pc = "listMachineDeployments"
    /\ \/ /\ Return("error")                      \* error listing machines
          /\ UNCHANGED deployments
       \/ /\ machineDeployments = {}
          /\ Return("error")                      \* Found 0 machine deployments
          /\ UNCHANGED deployments
       \/ /\ machineDeployments # {}
          /\ deployments' = DeploymentListOf(machineDeployments)
          /\ pc' = "upgradeMachineDeployments"
          /\ UNCHANGED <<result, locals>>
    /\ UNCHANGED <<world, config, upgrader, run, history, scope, machineDeployments, mdIdx,
                   upgraded, call>>

\* the skip test of upgradeMachineDeployments: the template carries some upgrade id
DeploymentHasAnyUpgradeID(machineDeployment) ==
    MapHas(machineDeployment.annotations, UpgradeIDAnnotationKey)
\* the skip test of upgradeMachineDeployments, line 65: the template carries the
\* current upgrade id
DeploymentHasUpgradeID(machineDeployment) ==
    /\ MapHas(machineDeployment.annotations, UpgradeIDAnnotationKey)
    /\ MapGet(machineDeployment.annotations, UpgradeIDAnnotationKey, "") = upgradeID

\* updateMachineDeployment, lines 83-98: the object with the template's version, its
\* upgrade-id annotation and, when both are configured, its image field set
UpdatedDeployment(machineDeployment) ==
    LET versioned == [machineDeployment EXCEPT !.version = <<VersionString(desiredVersion)>>]
        annotated == [versioned EXCEPT !.annotations =
                         SetAnnotation(@, UpgradeIDAnnotationKey, upgradeID)]
    IN  IF config.imageField # "" /\ config.imageID # ""
        THEN [annotated EXCEPT !.image =
                 updateMachineSpecImage(@, config.imageField, config.imageID)]
        ELSE annotated

\* ctrlclient.MergeFrom(original) applied by the API: what differs between original and
\* updated is written to the stored object
MergePatch(stored, original, updated) ==
    [stored EXCEPT
        !.version = IF updated.version # original.version THEN updated.version ELSE @,
        !.annotations = {a \in @ : ~\E u \in updated.annotations \ original.annotations :
                                       u[1] = a[1]}
                        \cup (updated.annotations \ original.annotations),
        !.image = {a \in @ : ~\E u \in updated.image \ original.image : u[1] = a[1]}
                  \cup (updated.image \ original.image)]

\* the loop logs the failure of updateMachineDeployment and goes on with the next item
SkipPatchError ==
    /\ mdIdx' = mdIdx + 1
    /\ UNCHANGED <<pc, result, locals, machineDeployments, log, upgraded>>

\* lines 68-71: updateMachineDeployment returned an error, which the loop logs and returns
ReturnPatchError ==
    /\ Return("error")
    /\ UNCHANGED <<machineDeployments, mdIdx, log, upgraded>>

\* upgradeMachineDeployments: one iteration of the loop (skip, or updateMachineDeployment
\* with its Patch), or the return after the last one.
upgradeMachineDeployments ==
    /\ pc = "upgradeMachineDeployments"
    /\ IF mdIdx = Len(deployments)
       THEN /\ Return("ok")
            /\ upgraded' = IF upgraded = 0 THEN run ELSE upgraded
            /\ UNCHANGED <<machineDeployments, mdIdx, log>>
       ELSE LET machineDeployment == deployments[mdIdx + 1]
                original == machineDeployment
                updated == UpdatedDeployment(machineDeployment)
            IN  \/ /\ DeploymentHasUpgradeID(machineDeployment)
                   /\ mdIdx' = mdIdx + 1
                   /\ UNCHANGED <<pc, result, locals, machineDeployments, log, upgraded>>
                \/ /\ ~DeploymentHasUpgradeID(machineDeployment)
                   /\ ReturnPatchError        \* updateMachineSpecImage or the Patch fails
                \/ /\ ~DeploymentHasUpgradeID(machineDeployment)
                   /\ \E stored \in machineDeployments :
                         /\ stored.name = machineDeployment.name
                         /\ machineDeployments' = (machineDeployments \ {stored})
                                \cup {MergePatch(stored, original, updated)}
                   /\ log' = Append(log, LogEntry("patchMachineDeployment",
                                                  machineDeployment.name, <<>>, 0, NoHostname))
                   /\ mdIdx' = mdIdx + 1
                   /\ UNCHANGED <<pc, result, locals, upgraded>>
    /\ UNCHANGED <<world, config, upgrader, run, replaced, calls, captured, atStart, scope,
                   deployments, call>>

\* ------------------------------------------------------------ specification
\* the steps of the control-plane upgrade and of the cluster around it
NextControlPlane ==
    \/ StartRun
    \/ Crash
    \/ ListMachines
    \/ Versions
    \/ updateKubeletConfigMapIfNeeded
    \/ updateKubeletRbacIfNeeded
    \/ etcdClusterHealthCheck
    \/ UpdateProviderIDsToNodes
    \/ updateAndUploadKubeadmKubernetesVersion
    \/ oldNodeToEtcdMemberId
    \/ NextMachine
    \/ UpdateInfrastructureRef
    \/ UpdateBootstrapRef
    \/ ResolveOldNode
    \/ CreateMachine
    \/ waitForProviderID
    \/ waitForMatchingNode
    \/ waitForNodeReady
    \/ ResolveNewNode
    \/ deleteEtcdMember
    \/ deleteMachine
    \/ applyAnnotation
    \/ InfraAssignsProviderID
    \/ NodeRegisters
    \/ KubeletStartsPods

Next ==
    \/ NextControlPlane
    \/ StartWorkerRun
    \/ ListMachineDeployments
    \/ upgradeMachineDeployments

Spec == Init /\ [][Next]_vars

\* the runs in which a wait stage that can poll does poll: wait.PollImmediate calls the
\* condition at once and then on every tick of its timer
InitWaits ==
    /\ Init
    /\ scope = "controlPlane"
    /\ config.imageID = "" \/ config.userVersion # unsetVersion
    /\ \E annotated \in SUBSET {1} :
          machines = {InitialMachine(k, IF k \in annotated THEN "annotated" ELSE "plain")
                         : k \in 1..NumMachines}

FairSpec ==
    /\ InitWaits
    /\ [][NextControlPlane]_vars
    /\ WF_vars(waitForProviderID)
    /\ WF_vars(waitForMatchingNode)
    /\ WF_vars(waitForNodeReady)

\* ------------------------------------------------- calls of the pure functions
\* the sequences over S of length at most n
Lists(S, n) == UNION {[1..k -> S] : k \in 0..n}

\* the Spec.Version of a listed Machine: nil, empty, versions with and without "v" and
\* with two parts, the zero version, and strings that do not parse
VersionFields ==
    {<<>>, <<EmptyString>>, <<V1137>>, <<V1138>>, <<VString("v", <<1, 12, 9>>)>>,
     <<VString("", <<1, 14>>)>>, <<VString("", <<0, 0, 0>>)>>,
     <<VString("", <<1, 13, 7, 1>>)>>, <<VString("latest", <<>>)>>}

\* a MachineList whose items have the given version fields
MachineListOf(fields) ==
    [k \in 1..Len(fields) |->
        Machine(<<"cp", k>>, k, fields[k], <<RawProviderID("aws", "a", k)>>, {},
                {<<"ami", "ami-old">>}, <<"cp", k>>)]

\* minMaxControlPlaneVersions(machines)
CallMinMax ==
    /\ call = NoCall
    /\ \E fields \in Lists(VersionFields, MaxList) :
          call' = [fn |-> "minMaxControlPlaneVersions", args |-> <<MachineListOf(fields)>>,
                   ret |-> <<minMaxControlPlaneVersions(MachineListOf(fields))>>]
    /\ UNCHANGED <<world, config, upgrader, pc, result, run, locals, history, workers>>

\* texts of Data["ClusterConfiguration"]: the document of a cluster at v1.13.7, the same
\* keys in another order, a document without kubernetesVersion, the empty text, and a
\* text that is not a mapping
ClusterConfigurationTexts ==
    {MapGet(InitialKubeadmConfig.Data, "ClusterConfiguration", NotYaml),
     YamlDoc(<<<<"kubernetesVersion", VString("v", <<1, 13, 8>>)>>,
               <<"kind", VString("ClusterConfiguration", <<>>)>>,
               <<"clusterName", VString("test1", <<>>)>>>>),
     YamlDoc(<<<<"clusterName", VString("test2", <<>>)>>>>),
     YamlDoc(<<>>),
     NotYaml}

\* kubeadm-config ConfigMaps: with and without labels, with and without the keys
\* ClusterConfiguration and ClusterStatus
KubeadmConfigMaps ==
    {ConfigMap(metadata, conf \cup status) :
        metadata \in {InitialKubeadmConfig.metadata,
                      [name |-> "kubeadm-config", namespace |-> "default"]},
        conf \in {{}} \cup {{<<"ClusterConfiguration", t>>} : t \in ClusterConfigurationTexts},
        status \in {{}, {d \in InitialKubeadmConfig.Data : d[1] = "ClusterStatus"}}}

\* the version strings handed to updateKubeadmKubernetesVersion
KubeadmVersions == {VString("v", <<1, 13, 8>>), VString("v", <<1, 14, 3>>), EmptyString}

\* updateKubeadmKubernetesVersion(original, version)
CallUpdateKubeadm ==
    /\ call = NoCall
    /\ \E original \in KubeadmConfigMaps, version \in KubeadmVersions :
          call' = [fn |-> "updateKubeadmKubernetesVersion", args |-> <<original, version>>,
                   ret |-> <<updateKubeadmKubernetesVersion(original, version)>>]
    /\ UNCHANGED <<world, config, upgrader, pc, result, run, locals, history, workers>>

\* Nodes a listing can hold: two instances of one zone, an instance with the id of the
\* first in another zone, and a Node whose provider ID is not set yet
ListedNodes ==
    LET addresses(k) == <<Address(NodeInternalIP, Hostname(k)), Address(NodeHostName, Hostname(k))>>
    IN  {Node(1, addresses(1), "a"), Node(2, addresses(2), "a"), Node(1, addresses(1), "b"),
         [Node(3, addresses(3), "") EXCEPT !.providerID = EmptyProviderID]}

\* one poll of waitForMatchingNode(rawProviderID, timeout) over a listing
CallFirstMatch ==
    /\ call = NoCall
    /\ \E nodeItems \in Lists(ListedNodes, MaxList), k \in 1..2 :
          LET rawProviderID == RawProviderID("aws", "a", k)
          IN  call' = [fn |-> "waitForMatchingNode", args |-> <<nodeItems, rawProviderID>>,
                       ret |-> <<FirstMatch(nodeItems, NewProviderID(rawProviderID), 1)>>]
    /\ UNCHANGED <<world, config, upgrader, pc, result, run, locals, history, workers>>

\* the tool before any run, on a cluster with a fleet of plain Machines
InitPure ==
    /\ Init
    /\ config = [userVersion |-> unsetVersion, imageField |-> "", imageID |-> "",
                 shouldWaitForProviderID |-> TRUE, shouldWaitForMatchingNode |-> TRUE,
                 shouldWaitForNodeReady |-> TRUE]
    /\ machines = {InitialMachine(k, "plain") : k \in 1..NumMachines}
    /\ scope = "controlPlane"

NextPure ==
    \/ CallMinMax
    \/ CallUpdateKubeadm
    \/ CallFirstMatch

SpecPure == InitPure /\ [][NextPure]_vars

\* ------------------------------------------------------------------ claims
\* the listed Machines of the current run that carry the current upgrade id
AnnotatedItems ==
    {j \in 1..Len(items) : <<UpgradeIDAnnotationKey, upgradeID>> \in items[j].annotations}

\* C1: a listed Machine whose upgrade-id annotation equals the current upgrade
\* identifier is left alone by the run: it stays in the management cluster exactly as
\* listed, no write of the run is done for it or names it (no clone, no infrastructure
\* object, no member removal, no deletion, no patch), and the etcd member of its
\* instance is not the one any removal of the run removed.
C1_AnnotatedUntouched ==
    \A j \in AnnotatedItems :
        /\ items[j] \in machines
        /\ \A e \in 1..Len(log) :
            /\ log[e].obj # items[j].name
            /\ log[e].new # items[j].name
            /\ (log[e].op = "removeMember" /\ items[j].providerID # <<>>)
                   => log[e].member # MemberID(items[j].providerID[1].id)

\* C1 witness: the loop has passed an annotated Machine and the same run has replaced
\* another Machine of the list (created the clone, removed the member, deleted it).
C1_Witness ==
    /\ \E j \in AnnotatedItems : j <= idx
    /\ {"createMachine", "removeMember", "deleteMachine"} \subseteq Ops(log)

\* the steps of a call of NewMachine: the creation and the three waits
NewMachineStages == {"newMachine", "waitForProviderID", "waitForMatchingNode", "waitForNodeReady"}

\* the positions in the log of the removals done for the listed Machine obj: the
\* removal of its etcd member and the deletion of the Machine
Removals(obj) ==
    {e \in 1..Len(log) : log[e].op \in {"removeMember", "deleteMachine"} /\ log[e].obj = obj}

\* what held when NewMachine returned r: every wait stage that is enabled had succeeded
EnabledStagesSucceeded(r) ==
    /\ config.shouldWaitForProviderID
           => r.providerID # <<>> /\ r.providerID # <<EmptyProviderID>>
    /\ (config.shouldWaitForProviderID /\ config.shouldWaitForMatchingNode)
           => /\ r.node # <<>>
              /\ ProviderIDEquals(NewProviderID(r.node[1].providerID),
                                  NewProviderID(r.providerID[1]))
    /\ (config.shouldWaitForProviderID /\ config.shouldWaitForMatchingNode
           /\ config.shouldWaitForNodeReady)
           => r.ready

\* the listed Machine the run was replacing last: the one of the last infrastructure clone
LastReplaced ==
    LET clones == {e \in 1..Len(log) : log[e].op = "createInfrastructure"}
    IN log[CHOOSE e \in clones : \A o \in clones : o <= e].obj

\* C2: the removal of a replaced Machine's etcd member and the deletion of the old
\* Machine come only after NewMachine returned successfully for its replacement, with
\* every enabled wait stage (provider ID, matching node, node ready) succeeded; while
\* NewMachine has not returned, and when its creation or a wait stage failed, the run
\* has done neither for that Machine, which is still in the management cluster.
C2_RemovalAfterNewMachine ==
    /\ \A e \in 1..Len(log) :
          log[e].op \in {"removeMember", "deleteMachine"}
             => /\ \E c \in 1..(e - 1) : /\ log[c].op = "createMachine"
                                         /\ log[c].obj = log[e].obj
                                         /\ log[c].new = log[e].new
                /\ \E r \in returned : /\ r.obj = log[e].obj
                                       /\ r.machine.name = log[e].new
                                       /\ EnabledStagesSucceeded(r)
    /\ pc \in NewMachineStages
          => /\ Removals(machine.name) = {}
             /\ \E m \in machines : m.name = machine.name
    /\ (pc = "done" /\ result.value = "error" /\ result.at \in NewMachineStages)
          => /\ Removals(LastReplaced) = {}
             /\ \E m \in machines : m.name = LastReplaced

\* C2 witness: with all the waits enabled the run has removed the member of a Machine
\* and deleted the Machine, and later a call of NewMachine for another Machine failed.
C2_Witness ==
    /\ config.shouldWaitForProviderID /\ config.shouldWaitForMatchingNode
    /\ config.shouldWaitForNodeReady
    /\ {"removeMember", "deleteMachine"} \subseteq Ops(log)
    /\ pc = "done" /\ result.value = "error" /\ result.at \in NewMachineStages

\* the steps of updateCRDs after the member snapshot: the loop and a replacement
ReplacementSteps ==
    {"loop", "infrastructureRef", "bootstrapRef", "updateMachine", "deleteEtcdMember",
     "deleteMachine", "applyAnnotation", "resolveNewNode"} \cup NewMachineStages

\* C3: the map from old hostname to member id is captured before mutation begins: once
\* per run, from the membership the run started with, before any member removal and
\* any deletion of an old Machine; it stays as captured while Machines are replaced;
\* and every member removal removes the member that the pre-upgrade membership names
\* for the old hostname.
C3_SnapshotBeforeMutation ==
    /\ \A e \in 1..Len(log) :
          log[e].op \in {"removeMember", "deleteMachine"}
             => /\ Len(snapshotLog) = 1
                /\ snapshotLog[1] < e
    /\ pc \in ReplacementSteps
          => /\ Len(snapshotLog) = 1
             /\ preUpgradeMembers = atStart[4]
             /\ oldNodeToEtcdMember = {<<m.name, FormatUint(m.ID, 16)>> : m \in preUpgradeMembers}
    /\ \A e \in 1..Len(log) :
          log[e].op = "removeMember"
             => \E m \in preUpgradeMembers : m.name = log[e].host /\ m.ID = log[e].member

\* C3 witness: the run has removed the members of two Machines, the second one after
\* the membership had changed.
C3_Witness ==
    /\ \E e, f \in 1..Len(log) : /\ e < f
                                /\ log[e].op = "removeMember"
                                /\ log[f].op = "removeMember"
    /\ etcdMembers # preUpgradeMembers

\* the decoded ClusterConfiguration of a kubeadm-config ConfigMap, and its version
ClusterConfigurationOf(cm) ==
    YamlUnmarshal(MapGet(cm.Data, "ClusterConfiguration", YamlDoc(<<>>)))
KubernetesVersionOf(cm) == MapGet(ClusterConfigurationOf(cm), "kubernetesVersion", EmptyString)

\* the writes that replace a Machine: the clone's creation, the member removal, the
\* deletion of the old Machine and the annotation of the new one
ReplacementOps == {"createMachine", "removeMember", "deleteMachine", "patchMachine"}

\* the positions in the log at which the run persisted the kubeadm-config ConfigMap
Persists == {k \in 1..Len(log) : log[k].op = "updateKubeadmConfig"}

C5_NoRepeatedReplacement ==
    \A e \in 1..Len(log) :
        log[e].op \in ReplacementOps \cup {"createInfrastructure"} => log[e].obj \notin finished

C8_RejectedPatchIsAnError ==
    /\ \A e, f \in 1..Len(log) :
          (log[e].op = "patchMachine" /\ log[f].op = "patchMachine" /\ log[e].new = log[f].new)
             => e = f
    /\ rejected \cap finished = {}
    /\ (pc = "done" /\ rejected # {}) => result.value # "ok"

\* C7: when the etcd health check fails, Upgrade returns an error and nothing of the
\* upgrade proper has been done: the Machines, the infrastructure and bootstrap
\* objects, the etcd membership and the kubeadm configuration are as the run found
\* them, and the run has written none of them. The run gets past the check only
\* when an etcd pod exists.
C7_HealthCheckFailureAborts ==
    /\ (pc = "done" /\ result.at = "healthCheck")
          => /\ result.value = "error"
             /\ <<machines, infraObjects, bootstrapObjects, etcdMembers, kubeadmConfig>> = atStart
             /\ Ops(log) \cap (ReplacementOps \cup {"createInfrastructure", "updateKubeadmConfig"})
                   = {}
             /\ snapshotLog = <<>>
    /\ pc = StepAfter("healthCheck") => listEtcdPods # {}

\* C7 witness: a run that had to migrate the kubelet artifacts ended with an error at
\* the health check.
C7_Witness ==
    /\ pc = "done" /\ result.at = "healthCheck" /\ result.value = "error"
    /\ log # <<>>

\* the Node n is the one NewMachine matched to the provider ID the Machine had got
MatchedNode(r) ==
    /\ r.node # <<>>
    /\ r.providerID # <<>>
    /\ ProviderIDEquals(NewProviderID(r.node[1].providerID), NewProviderID(r.providerID[1]))

\* C9: on success NewMachine returns the Machine it created and, by the configured
\* stages: a nil node without any wait when the provider-ID wait is off; a nil node
\* after the provider-ID wait when the matching-node wait is off; the matched node
\* without a readiness check when the readiness wait is off; the matched node with its
\* components observed ready when all waits are on. A call that failed returned no
\* Machine and no node, and the run ended with its error.
C9_ResultByStages ==
    /\ \A r \in returned :
          /\ \E j \in 1..Len(submitted) :
                /\ submitted[j].name = r.machine.name
                /\ r.machine = [submitted[j].object EXCEPT !.resourceVersion = 1]
                /\ submitted[j].source.name = r.obj
          /\ ~config.shouldWaitForProviderID
                => /\ r.node = <<>>
                   /\ r.stages = <<"create", "resolveNewNode">>
          /\ (config.shouldWaitForProviderID /\ ~config.shouldWaitForMatchingNode)
                => /\ r.node = <<>>
                   /\ r.stages = <<"create", "waitForProviderID", "resolveNewNode">>
          /\ (config.shouldWaitForProviderID /\ config.shouldWaitForMatchingNode
                /\ ~config.shouldWaitForNodeReady)
                => /\ MatchedNode(r)
                   /\ r.stages = <<"create", "waitForProviderID", "waitForMatchingNode",
                                   "resolveNewNode">>
          /\ (config.shouldWaitForProviderID /\ config.shouldWaitForMatchingNode
                /\ config.shouldWaitForNodeReady)
                => /\ MatchedNode(r)
                   /\ r.ready
                   /\ r.stages = <<"create", "waitForProviderID", "waitForMatchingNode",
                                   "waitForNodeReady", "resolveNewNode">>
    /\ (pc = "done" /\ result.at \in NewMachineStages)
          => /\ result.value = "error"
             /\ newMachine = NoMachine
             /\ node = <<>>
             /\ \A r \in returned : r.obj # LastReplaced

\* C9 witness: with the readiness wait off, NewMachine has returned the matched node
\* while its components were not ready.
C9_Witness ==
    /\ config.shouldWaitForProviderID /\ config.shouldWaitForMatchingNode
    /\ ~config.shouldWaitForNodeReady
    /\ \E r \in returned : r.node # <<>> /\ ~r.ready

\* the image of the source with the configured field set to the configured id
ImageOverridden(image) ==
    {a \in image : a[1] # config.imageField} \cup {<<config.imageField, config.imageID>>}

\* C10: the object NewMachine submits equals the source Machine except for an empty
\* resource version, a nil provider ID, the new name, the desired version, and the
\* image, rewritten if and only if both the image field and the image id are
\* configured; the source is as it was passed in; and each call submits one creation
\* request: one per new name, and one create of the run for each.
C10_SubmittedObject ==
    /\ \A j \in 1..Len(submitted) :
          LET s == submitted[j]
          IN /\ s.object =
                   [name |-> s.name,
                    resourceVersion |-> 0,
                    version |-> <<VString("", <<desiredVersion.Major, desiredVersion.Minor,
                                                desiredVersion.Patch>>)>>,
                    providerID |-> <<>>,
                    annotations |-> s.source.annotations,
                    image |-> IF config.imageField # "" /\ config.imageID # ""
                              THEN ImageOverridden(s.source.image)
                              ELSE s.source.image,
                    infrastructureRef |-> s.source.infrastructureRef,
                    bootstrapRef |-> s.source.bootstrapRef]
             /\ s.after = s.source
             /\ \A k \in 1..Len(submitted) : submitted[k].name = s.name => k = j
             /\ Cardinality({e \in 1..Len(log) : /\ log[e].op = "createMachine"
                                                 /\ log[e].new = s.name
                                                 /\ log[e].obj = s.source.name}) = 1
    /\ Cardinality({e \in 1..Len(log) : log[e].op = "createMachine"}) = Len(submitted)

\* C10 witness: NewMachine has submitted the clone of a Machine that had a resource
\* version, a provider ID and another version, with its image rewritten.
C10_Witness ==
    \E j \in 1..Len(submitted) :
        /\ submitted[j].source.resourceVersion # 0
        /\ submitted[j].source.providerID # <<>>
        /\ submitted[j].source.version # submitted[j].object.version
        /\ submitted[j].source.image # submitted[j].object.image

\* the version fields of a list that are not empty: neither nil nor ""
NonEmptyVersions(list) ==
    {list[k].version[1] : k \in {j \in 1..Len(list) : list[j].version \notin {<<>>, <<EmptyString>>}}}

\* v is the least (greatest) of the parsed versions of the set, or unset when it is empty
IsMinimumOf(v, strings) ==
    IF strings = {} THEN v = unsetVersion
    ELSE /\ \E x \in strings : ParseTolerant(x) = v
         /\ \A x \in strings : ~VersionLT(ParseTolerant(x), v)
IsMaximumOf(v, strings) ==
    IF strings = {} THEN v = unsetVersion
    ELSE /\ \E x \in strings : ParseTolerant(x) = v
         /\ \A x \in strings : ~VersionLT(v, ParseTolerant(x))

\* C11: minMaxControlPlaneVersions returns the minimum and the maximum of the parsed
\* versions of exactly the Machines whose version field is not empty: a Machine with
\* an empty version field is left out and causes no error, and a non-empty version
\* that does not parse yields an error.
C11_MinMaxOfNonEmpty ==
    call.fn = "minMaxControlPlaneVersions"
       => LET list == call.args[1]
              ret == call.ret[1]
              present == NonEmptyVersions(list)
          IN IF \E x \in present : ~ParseTolerantOk(x)
             THEN ~ret.ok /\ ~ret.panic
             ELSE /\ ret.ok /\ ~ret.panic
                  /\ IsMinimumOf(ret.min, present)
                  /\ IsMaximumOf(ret.max, present)

\* the non-empty version fields of the Machines the run started with
FleetVersions ==
    {m.version[1] : m \in {x \in atStart[1] : x.version \notin {<<>>, <<EmptyString>>}}}

\* C12: the desired version a run uses for its replacements and for the rewrite of the
\* kubeadm configuration is the version the user set, whatever the fleet's versions
\* are, and without one the maximum of the versions observed in the fleet.
C12_DesiredVersionDefault ==
    (Persists # {} \/ submitted # <<>>)
       => /\ IF config.userVersion = unsetVersion
             THEN IsMaximumOf(desiredVersion, FleetVersions)
             ELSE desiredVersion = config.userVersion
          /\ \A j \in 1..Len(submitted) :
                /\ submitted[j].object.version # <<>>
                /\ submitted[j].object.version[1].prefix = ""
                /\ ParseTolerant(submitted[j].object.version[1]) = desiredVersion
          /\ Persists # {}
                => /\ KubernetesVersionOf(kubeadmConfig).prefix = "v"
                   /\ ParseTolerant(KubernetesVersionOf(kubeadmConfig))
                         = desiredVersion

\* C12 witness: without a version set by the user, a fleet at 1.13.7 and 1.13.8 has had
\* its kubeadm configuration rewritten and a Machine at 1.13.7 replaced by one at 1.13.8.
C12_Witness ==
    /\ config.userVersion = unsetVersion
    /\ Persists # {}
    /\ \E j \in 1..Len(submitted) : /\ submitted[j].source.version = <<V1137>>
                                    /\ submitted[j].object.version = <<V1138>>

\* versions to compare: two majors, three minors, two patches
ComparedVersions == {SemVer(ma, mi, pa) : ma \in {1, 2}, mi \in {12, 13, 14}, pa \in {0, 7}}

\* the run's observed minimum and its desired version are a minor-version step apart
MinorBump == min.Major = desiredVersion.Major /\ min.Minor < desiredVersion.Minor

\* the writes of the kubelet forward migration
MigrationOps == {"createConfigMap", "createRole", "createRoleBinding"}

\* C13: isMinorVersionUpgrade(a, b) is true exactly when the majors are equal and a's
\* minor is below b's. A run enters the kubelet forward migration (the ConfigMap, then
\* the RBAC objects) exactly when that holds of its observed minimum and its desired
\* version, right after the versions are computed and nowhere else; otherwise it goes
\* straight on to the health check, and does none of the migration's writes.
C13_MigrationIffMinorBump ==
    /\ [](run = 0 => \A a, b \in ComparedVersions :
                        isMinorVersionUpgrade(a, b) <=> (a.Major = b.Major /\ a.Minor < b.Minor))
    /\ []((pc \in {"kubeletConfigMap", "kubeletRbac"}
           \/ (pc # "done" /\ Ops(log) \cap MigrationOps # {})) => MinorBump)
    /\ [][/\ (pc = "versions" /\ pc' \notin {"versions", "done"})
              => /\ (pc' = "kubeletConfigMap") <=> MinorBump'
                 /\ (pc' # "kubeletConfigMap") => pc' = "healthCheck"
          /\ (pc' = "kubeletConfigMap" /\ pc # pc') => pc = "versions"
          /\ (pc' = "kubeletRbac" /\ pc # pc') => pc = "kubeletConfigMap"
          /\ (pc = "kubeletRbac" /\ pc' \notin {"kubeletRbac", "done"}) => pc' = "healthCheck"]_vars

\* C13 witness: a run whose versions are no minor-version step apart has skipped the
\* migration, passed the health check, rewritten the kubeadm configuration and
\* replaced a Machine.
C13_Witness ==
    /\ pc = "loop"
    /\ ~MinorBump
    /\ Ops(log) \cap MigrationOps = {}
    /\ Persists # {}
    /\ {"createMachine", "deleteMachine"} \subseteq Ops(log)

\* the call of updateKubeadmKubernetesVersion made, if one was
UpdateKubeadmCalled == call.fn = "updateKubeadmKubernetesVersion"

\* C14: updateKubeadmKubernetesVersion returns a ConfigMap that differs from its input
\* only in the kubernetesVersion of the ClusterConfiguration value, which becomes the
\* given version: every other field of ClusterConfiguration, every other key of Data and
\* the metadata are those of the input, and the input object is as it was before the call.
C14_OnlyKubernetesVersionChanges ==
    UpdateKubeadmCalled =>
        LET original == call.args[1]
            version == call.args[2]
            ret == call.ret[1]
        IN  /\ ret.original = original
            /\ YamlUnmarshalOk(MapGet(original.Data, "ClusterConfiguration", YamlDoc(<<>>)))
                  => /\ ~ret.err
                     /\ ret.cm[1].metadata = original.metadata
                     /\ {d \in ret.cm[1].Data : d[1] # "ClusterConfiguration"}
                           = {d \in original.Data : d[1] # "ClusterConfiguration"}
                     /\ YamlUnmarshalOk(MapGet(ret.cm[1].Data, "ClusterConfiguration", NotYaml))
                     /\ KubernetesVersionOf(ret.cm[1]) = version
                     /\ {f \in ClusterConfigurationOf(ret.cm[1]) : f[1] # "kubernetesVersion"}
                           = {f \in ClusterConfigurationOf(original) : f[1] # "kubernetesVersion"}

\* C14 witness: the function was called on a ConfigMap that has a ClusterStatus key and
\* a ClusterConfiguration with other fields and another kubernetesVersion, and returned
\* a ConfigMap.
C14_Witness ==
    /\ UpdateKubeadmCalled
    /\ ~call.ret[1].err
    /\ MapHas(call.args[1].Data, "ClusterStatus")
    /\ MapHas(ClusterConfigurationOf(call.args[1]), "clusterName")
    /\ MapHas(ClusterConfigurationOf(call.args[1]), "kubernetesVersion")
    /\ KubernetesVersionOf(call.args[1]) # call.args[2]
    /\ call.ret[1].cm[1] # call.args[1]

\* C15: when the listing of control-plane Machines, or of MachineDeployments for the
\* worker upgrade, is empty, Upgrade returns an error from the listing step and writes
\* nothing: the run never gets past the listing, its log of writes is empty, and the
\* Machines, referenced objects, etcd members, kubeadm-config and MachineDeployments
\* are as they were when it started.
C15_EmptyListingIsAnError ==
    /\ (scope = "controlPlane" /\ run >= 1 /\ atStart[1] = {})
          => /\ pc \in {"listMachines", "done"}
             /\ pc = "done" => /\ result.value \in {"error", "crash"}
                               /\ result.value = "error" => result.at = "listMachines"
             /\ log = <<>>
             /\ <<machines, infraObjects, bootstrapObjects, etcdMembers, kubeadmConfig>> = atStart
    /\ (scope = "machineDeployments" /\ run >= 1 /\ machineDeployments = {})
          => /\ pc \in {"listMachineDeployments", "done"}
             /\ pc = "done" => /\ result.value \in {"error", "crash"}
                               /\ result.value = "error" => result.at = "listMachineDeployments"
             /\ log = <<>>
             /\ deployments = <<>>
             /\ <<machines, infraObjects, bootstrapObjects, etcdMembers, kubeadmConfig>> = atStart

\* C15 witness: a run of the control-plane upgrade on a cluster without control-plane
\* Machines has returned its error from the listing step.
C15_Witness ==
    /\ scope = "controlPlane"
    /\ run >= 1
    /\ atStart[1] = {}
    /\ result = [value |-> "error", at |-> "listMachines"]

\* the MachineDeployments the current run of the worker upgrade has patched
PatchEntries == {e \in 1..Len(log) : log[e].op = "patchMachineDeployment"}
PatchedDeployments == {log[e].obj : e \in PatchEntries}

\* C16: the worker upgrade patches exactly the listed MachineDeployments whose template
\* is not annotated with the current upgrade id, each once; a patched one then has the
\* desired version and the current upgrade id on its template, the others are stored as
\* listed; and a run started after a run that returned nil issues no patch.
C16_PatchesExactlyUnannotated ==
    (scope = "machineDeployments" /\ result.value # "crash")
       => /\ PatchedDeployments =
                {deployments[j].name : j \in {i \in 1..mdIdx :
                       <<UpgradeIDAnnotationKey, upgradeID>> \notin deployments[i].annotations}}
          /\ Cardinality(PatchEntries) = Cardinality(PatchedDeployments)
          /\ result.value = "ok" => mdIdx = Len(deployments)
          /\ \A j \in 1..Len(deployments) :
                IF deployments[j].name \in PatchedDeployments
                THEN \E d \in machineDeployments :
                        /\ d.name = deployments[j].name
                        /\ d.version = <<VString("", <<config.userVersion.Major,
                                           config.userVersion.Minor, config.userVersion.Patch>>)>>
                        /\ {a \in d.annotations : a[1] = UpgradeIDAnnotationKey}
                              = {<<UpgradeIDAnnotationKey, upgradeID>>}
                ELSE deployments[j] \in machineDeployments
          /\ (upgraded # 0 /\ run > upgraded) => PatchEntries = {}

\* C16 witness: a run of the worker upgrade has returned nil after skipping a
\* MachineDeployment annotated with the current upgrade id and patching another.
C16_Witness ==
    /\ scope = "machineDeployments"
    /\ result.value = "ok"
    /\ PatchedDeployments # {}
    /\ \E j \in 1..Len(deployments) :
          <<UpgradeIDAnnotationKey, upgradeID>> \in deployments[j].annotations

\* the creations of replacement Machines in the log of the current run, and those of
\* them whose predecessor the run has not deleted since
Creations == {e \in 1..Len(log) : log[e].op = "createMachine"}
InFlight ==
    {e \in Creations :
        ~\E d \in (e + 1)..Len(log) : log[d].op = "deleteMachine" /\ log[d].obj = log[e].obj}

\* C17: control-plane Machines are replaced one at a time: between the creation of one
\* replacement and the creation of the next, the run removed the member of, deleted and
\* annotated for the first, in that order; at every moment at most one replacement
\* exists whose predecessor is not deleted, and the run's fleet is never larger than
\* the fleet it started from plus one.
C17_OneReplacementInFlight ==
    scope = "controlPlane" =>
        /\ Cardinality(machines) <= Cardinality(atStart[1]) + 1
        /\ result.value # "crash" =>
              /\ Cardinality(InFlight) <= 1
              /\ Cardinality(machines) = Cardinality(atStart[1]) + Cardinality(InFlight)
              /\ \A e \in InFlight :
                    /\ \E m \in machines : m.name = log[e].new
                    /\ \E m \in machines : m.name = log[e].obj
              /\ \A e1 \in Creations, e2 \in Creations :
                    e1 < e2 =>
                       \E a \in (e1 + 1)..(e2 - 1), b \in (e1 + 1)..(e2 - 1),
                          c \in (e1 + 1)..(e2 - 1) :
                            /\ a < b /\ b < c
                            /\ log[a].op = "removeMember" /\ log[a].obj = log[e1].obj
                            /\ log[b].op = "deleteMachine" /\ log[b].obj = log[e1].obj
                            /\ log[c].op = "patchMachine" /\ log[c].obj = log[e1].obj

\* C17 witness: a run has replaced one Machine completely and created the replacement
\* of the next one, whose predecessor still exists.
C17_Witness ==
    /\ scope = "controlPlane"
    /\ Cardinality(Creations) = 2
    /\ Cardinality(InFlight) = 1
    /\ Cardinality(machines) = NumMachines + 1

\* the wait stages of NewMachine, and what the check of each looks for
WaitStages == {"waitForProviderID", "waitForMatchingNode", "waitForNodeReady"}
CheckSucceeds ==
    CASE pc = "waitForProviderID" ->
            \E m \in machines : /\ m.name = newMachine.name
                                /\ m.providerID \notin {<<>>, <<EmptyProviderID>>}
      [] pc = "waitForMatchingNode" ->
            \E n \in nodes : /\ NewProviderIDOk(n.providerID)
                             /\ ProviderIDEquals(NewProviderID(providerID),
                                                 NewProviderID(n.providerID))
      [] pc = "waitForNodeReady" -> isReady(hostnameForNode(node[1]))
      [] OTHER -> FALSE
\* a step of the wait stage the run is in: it leaves the stage or counts a poll
WaitStep == pc \in WaitStages /\ (pc' # pc \/ polls' # polls)

\* C18: each wait stage starts with a check before any sleep (it is entered with no
\* poll counted), goes on to the next stage only on a check that succeeds, sleeps and
\* polls again only while its deadline has not passed, never counts a poll past the
\* deadline, ends with an error otherwise, and always ends.
C18_WaitStagesTerminate ==
    /\ [](pc \in WaitStages => polls \in 0..MaxPolls)
    /\ [][(pc' \in WaitStages /\ pc' # pc) => polls' = 0]_vars
    /\ [][WaitStep =>
            \/ pc' \notin {pc, "done"} /\ CheckSucceeds
            \/ /\ pc' = pc /\ polls' = polls + 1 /\ polls < MaxPolls
               /\ pc # "waitForNodeReady" => ~CheckSucceeds
            \/ /\ pc' = "done" /\ result'.value \in {"error", "crash"}
               /\ (result'.value = "error" /\ pc = "waitForNodeReady"
                      /\ hostnameForNode(node[1]) # NoHostname) => polls = MaxPolls]_vars
    /\ \A w \in WaitStages : (pc = w) ~> (pc # w)

\* C18 witness: the provider-ID wait and the matching-node wait of a new Machine have
\* ended with success, and its node-ready wait has polled up to its deadline.
C18_Witness ==
    /\ pc = "waitForNodeReady"
    /\ polls = MaxPolls
    /\ {"waitForProviderID", "waitForMatchingNode"} \subseteq Range(stages)

\* a step of the provider-ID wait: it leaves the stage or counts a poll
ProviderIDWaitStep ==
    /\ pc = "waitForProviderID"
    /\ pc' # pc \/ polls' # polls
    /\ result'.value # "crash"
\* the Machine NewMachine created, as the management cluster stores it
CreatedMachine == {m \in machines : m.name = newMachine.name}

\* C19: the provider-ID wait goes on with success only with the non-empty provider ID
\* the created Machine is stored with; while the stored provider ID is nil or empty a
\* poll that read the Machine counts one more poll and stays in the stage; and a poll
\* that ends the stage otherwise ends the run with an error from this stage, at once.
C19_ProviderIDWait ==
    /\ [][ProviderIDWaitStep =>
            \/ /\ pc' \notin {pc, "done"}
               /\ providerID' # EmptyProviderID
               /\ \E m \in CreatedMachine : m.providerID = <<providerID'>>
            \/ /\ pc' = pc
               /\ polls' = polls + 1
               /\ providerID' = providerID
               /\ \E m \in CreatedMachine : m.providerID \in {<<>>, <<EmptyProviderID>>}
            \/ /\ pc' = "done"
               /\ result' = [value |-> "error", at |-> "waitForProviderID"]]_vars
    /\ [][(ProviderIDWaitStep /\ \E m \in CreatedMachine :
                                    m.providerID \in {<<>>, <<EmptyProviderID>>})
             => pc' \in {pc, "done"}]_vars
    /\ []((pc \in {"waitForMatchingNode", "waitForNodeReady"} /\ config.shouldWaitForProviderID)
             => providerID # EmptyProviderID)

\* C19 witness: the wait has polled once while the created Machine had an empty
\* provider ID, and the Machine has its provider ID now.
C19_Witness ==
    /\ pc = "waitForProviderID"
    /\ polls = 1
    /\ \E m \in CreatedMachine : m.providerID \notin {<<>>, <<EmptyProviderID>>}

\* the poll of waitForMatchingNode made, if one was
FirstMatchCalled == call.fn = "waitForMatchingNode"
\* no two items of the list have the same provider ID, as strings or (where both
\* parse) as noderefutil compares them
UniqueProviderIDs(list) ==
    \A i, j \in DOMAIN list :
        i # j => /\ list[i].providerID # list[j].providerID
                 /\ (NewProviderIDOk(list[i].providerID) /\ NewProviderIDOk(list[j].providerID))
                       => ~ProviderIDEquals(NewProviderID(list[i].providerID),
                                            NewProviderID(list[j].providerID))
\* the lists with the items of list in another order
Reorderings(list) ==
    {[j \in DOMAIN list |-> list[p[j]]] :
        p \in {q \in [DOMAIN list -> DOMAIN list] : \A i, j \in DOMAIN list : i # j => q[i] # q[j]}}

\* C20: for a node list with unique provider IDs, one poll of waitForMatchingNode has
\* the same outcome (the matching Node, no match, or an error) whatever the order of
\* the list, and a Node it returns has a provider ID that equals the target's.
C20_ScanOrderIndependent ==
    (FirstMatchCalled /\ UniqueProviderIDs(call.args[1]))
       => /\ \A reordered \in Reorderings(call.args[1]) :
                FirstMatch(reordered, NewProviderID(call.args[2]), 1) = call.ret[1]
          /\ call.ret[1].found
                => ProviderIDEquals(NewProviderID(call.args[2]),
                                    NewProviderID(call.ret[1].node[1].providerID))

\* the address lists of a Node's status: up to MaxList entries of type Hostname or
\* InternalIP
NodeAddressLists ==
    Lists({Address(t, Hostname(k)) : t \in {NodeHostName, NodeInternalIP}, k \in 1..2}, MaxList)
\* the Node NewMachine matched for the Machine it created last, as the cluster holds it
LastMatchedNodes ==
    IF submitted = <<>> THEN {}
    ELSE {n \in nodes :
            \E m \in machines :
                /\ m.name = submitted[Len(submitted)].name
                /\ m.providerID # <<>>
                /\ NewProviderIDOk(m.providerID[1])
                /\ ProviderIDEquals(NewProviderID(m.providerID[1]), NewProviderID(n.providerID))}

\* C21: hostnameForNode returns the address of the first Hostname-typed entry of the
\* Node's addresses, and the empty string when there is none; and when the matched
\* Node resolves to no hostname the node-ready stage has counted no poll and its only
\* step ends the run with an error from that stage.
C21_HostnameResolution ==
    /\ [](run = 0 =>
            \A addresses \in NodeAddressLists :
                LET n == Node(1, addresses, "a")
                    typed == {j \in DOMAIN addresses : addresses[j].type = NodeHostName}
                IN  IF typed = {}
                    THEN hostnameForNode(n) = NoHostname
                    ELSE \E j \in typed : /\ \A i \in typed : j <= i
                                          /\ hostnameForNode(n) = addresses[j].address)
    /\ []((pc = "waitForNodeReady" /\ hostnameForNode(node[1]) = NoHostname) => polls = 0)
    /\ [][(pc = "waitForNodeReady" /\ hostnameForNode(node[1]) = NoHostname
             /\ (pc' # pc \/ polls' # polls) /\ result'.value # "crash")
            => /\ pc' = "done"
               /\ result' = [value |-> "error", at |-> "waitForNodeReady"]
               /\ pods' = pods]_vars

\* C21 witness: the Node matched for the new Machine has an InternalIP address but no
\* Hostname address, and the run has ended with an error from the node-ready stage.
C21_Witness ==
    /\ result = [value |-> "error", at |-> "waitForNodeReady"]
    /\ \E n \in LastMatchedNodes : n.addresses # <<>> /\ hostnameForNode(n) = NoHostname

\* the hostnames the cluster knows: those of its Nodes and those its pods run on
KnownHostnames ==
    ({hostnameForNode(n) : n \in nodes} \cup {p.nodeName : p \in pods}) \ {NoHostname}
\* the pod <component>-<hostname> exists and reports the four conditions with status True
ComponentHealthy(c, h) ==
    \E p \in pods :
        /\ p.component = c
        /\ p.nodeName = h
        /\ \A t \in {"PodScheduled", "Initialized", "Ready", "ContainersReady"} :
              <<t, "True">> \in p.conditions

\* C22: whenever the node-ready stage is polling, isReady(hostname) is, for every
\* hostname of the cluster, true exactly when each of etcd, kube-apiserver,
\* kube-scheduler and kube-controller-manager has its pod <component>-<hostname> with
\* PodScheduled, Initialized, Ready and ContainersReady all True; with the Get of one
\* pod failing it is false; and a false answer is never an error of the node-ready
\* stage: the stage polls again, and ends with an error only at its deadline.
C22_HealthPredicate ==
    /\ [](pc = "waitForNodeReady" =>
           \A h \in KnownHostnames :
             /\ isReadyReading(h, {})
                   <=> \A c \in {"etcd", "kube-apiserver", "kube-scheduler",
                                 "kube-controller-manager"} : ComponentHealthy(c, h)
             /\ \A c \in Range(components) : ~isReadyReading(h, {c}))
    /\ [][(pc = "waitForNodeReady" /\ hostnameForNode(node[1]) # NoHostname
             /\ (pc' # pc \/ polls' # polls) /\ result'.value # "crash")
            => \/ /\ pc' = "resolveNewNode"
                  /\ \A c \in Range(components) : ComponentHealthy(c, hostnameForNode(node[1]))
               \/ /\ pc' = pc /\ polls' = polls + 1
               \/ /\ pc' = "done" /\ polls = MaxPolls
                  /\ result' = [value |-> "error", at |-> "waitForNodeReady"]]_vars

\* C22 witness: the node-ready stage has polled once for a Node on which one of the
\* four pods is missing or lacks a condition, and the other three are healthy.
C22_Witness ==
    /\ pc = "waitForNodeReady"
    /\ polls = 1
    /\ hostnameForNode(node[1]) # NoHostname
    /\ Cardinality({c \in Range(components) : ComponentHealthy(c, hostnameForNode(node[1]))}) = 3

\* the object named n of a store is a clone as updateObjectReference makes it: no
\* owner references, no spec.providerID
CloneIn(store, n) == \E o \in store : o.name = n /\ ~o.ownerReferences /\ ~o.providerID

\* C23: when the replacement Machine of a Machine is created, the clones of its
\* infrastructure object and of its bootstrap object exist under the new name, without
\* owner references and without a provider ID, and the replacement refers to them.
C23_ClonesBeforeMachine ==
    \A e \in 1..Len(log) :
        log[e].op = "createMachine"
           => /\ \E c \in 1..(e - 1) : /\ log[c].op = "createInfrastructure"
                                       /\ log[c].new = log[e].new
              /\ CloneIn(infraObjects, log[e].new)
              /\ CloneIn(bootstrapObjects, log[e].new)
              /\ \A j \in 1..Len(submitted) :
                    submitted[j].name = log[e].new
                       => /\ submitted[j].object.infrastructureRef = log[e].new
                          /\ submitted[j].object.bootstrapRef = log[e].new

\* the writes that run "member remove" in an etcd pod, whether etcd removed a member
\* or the command failed
RemoveCommands == {"removeMember", "memberRemoveFailed"}
\* the member-removal step cannot go ahead: no etcd pod is listed, none runs on the new
\* Node, or the old Node's hostname has no entry in the member map
RemovalImpossible ==
    \/ listEtcdPods = {}
    \/ \A p \in listEtcdPods : p.nodeName # nodeHostname
    \/ ~MapHas(oldNodeToEtcdMember, oldHostName)

\* C24: when no etcd pod is listed, none runs on the new Node, or the old Node's
\* hostname has no entry in the member map, the member-removal step ends the run with
\* an error without running a remove command, and the old Machine is not deleted.
C24_NoRemovalWithoutTarget ==
    [][(pc = "deleteEtcdMember" /\ pc' # pc /\ result'.value # "crash" /\ RemovalImpossible)
         => /\ pc' = "done"
            /\ result' = [value |-> "error", at |-> "deleteEtcdMember"]
            /\ \A e \in 1..Len(log') : e > Len(log) => log'[e].op \notin RemoveCommands
            /\ etcdMembers' = etcdMembers
            /\ machines' = machines]_vars

\* the names of the kubelet ConfigMap of the desired version and of the minor before it
DesiredKubeletConfigMap == <<desiredVersion.Major, desiredVersion.Minor>>
PreviousKubeletConfigMap == <<desiredVersion.Major, desiredVersion.Minor - 1>>
\* the step of the run appends a createConfigMap write
CreatesConfigMap ==
    /\ Len(log') = Len(log) + 1
    /\ log'[Len(log')].op = "createConfigMap"

\* C25: the kubelet ConfigMap step creates an object only when the one named after the
\* desired version is absent, and then a copy of the previous minor's object under the
\* desired name; a create answered "already exists" lets the run go on; when the
\* previous minor's object cannot be read the run ends with an error and nothing is
\* created.
C25_KubeletConfigMapCopyForward ==
    [][(pc = "kubeletConfigMap" /\ pc' # pc /\ result'.value # "crash")
         => /\ MapHas(kubeletConfigMaps, DesiredKubeletConfigMap)
                 => (kubeletConfigMaps' = kubeletConfigMaps /\ ~CreatesConfigMap)
            /\ CreatesConfigMap
                 => /\ MapHas(kubeletConfigMaps, PreviousKubeletConfigMap)
                    /\ kubeletConfigMaps' = kubeletConfigMaps \cup
                           {<<DesiredKubeletConfigMap,
                              MapGet(kubeletConfigMaps, PreviousKubeletConfigMap, "")>>}
                    /\ pc' = "kubeletRbac"
            /\ (~CreatesConfigMap /\ kubeletConfigMaps' # kubeletConfigMaps)
                 => pc' = "kubeletRbac"
            /\ (~MapHas(kubeletConfigMaps, DesiredKubeletConfigMap)
                  /\ ~MapHas(kubeletConfigMaps, PreviousKubeletConfigMap))
                 => (pc' = "done" /\ result'.value = "error"
                     /\ kubeletConfigMaps' = kubeletConfigMaps)]_vars

\* where a MachineDeployment stands in the list of the current run
DeploymentIndex(mdName) == CHOOSE j \in 1..Len(deployments) : deployments[j].name = mdName
\* the listed MachineDeployment at j is stored with the desired version and the current
\* upgrade id
StoredPatched(j) ==
    \E d \in machineDeployments :
        /\ d.name = deployments[j].name
        /\ d.version = <<VersionString(config.userVersion)>>
        /\ <<UpgradeIDAnnotationKey, upgradeID>> \in d.annotations

\* C26: the worker upgrade patches MachineDeployments in list order and never goes past
\* one it has to patch without patching it; when a patch fails the run returns the error
\* in that step, the ones later in the list are stored as listed, the ones patched
\* before stay patched, and nothing is patched after the return.
C26_WorkerFailFast ==
    /\ [](scope = "machineDeployments" /\ result.value # "crash"
            => /\ \A e, f \in PatchEntries :
                     e < f => DeploymentIndex(log[e].obj) < DeploymentIndex(log[f].obj)
               /\ \A j \in 1..mdIdx :
                     ~DeploymentHasUpgradeID(deployments[j])
                        => (deployments[j].name \in PatchedDeployments /\ StoredPatched(j))
               /\ \A j \in (mdIdx + 1)..Len(deployments) :
                     /\ deployments[j].name \notin PatchedDeployments
                     /\ deployments[j] \in machineDeployments
               /\ result = [value |-> "error", at |-> "upgradeMachineDeployments"]
                     => /\ mdIdx < Len(deployments)
                        /\ ~DeploymentHasUpgradeID(deployments[mdIdx + 1]))
    /\ [][(pc = "upgradeMachineDeployments" /\ result'.value = "error")
             => /\ pc' = "done"
                /\ result'.at = "upgradeMachineDeployments"
                /\ log' = log
                /\ machineDeployments' = machineDeployments
                /\ mdIdx' = mdIdx]_vars
    /\ [][(scope = "machineDeployments" /\ pc = "done" /\ pc' = "done")
             => (machineDeployments' = machineDeployments /\ log' = log)]_vars

\* C26 witness: a run of the worker upgrade has returned the error of a failed patch
\* after patching one MachineDeployment, with another one after the failed one.
C26_Witness ==
    /\ scope = "machineDeployments"
    /\ result = [value |-> "error", at |-> "upgradeMachineDeployments"]
    /\ PatchedDeployments # {}
    /\ mdIdx + 1 < Len(deployments)
    /\ ~DeploymentHasUpgradeID(deployments[mdIdx + 2])

\* the stages of NewMachine in the order of its code, and the flag each wait is under
StageOrder == <<"create", "waitForProviderID", "waitForMatchingNode", "waitForNodeReady">>
StageFlag(k) ==
    CASE k = 2 -> config.shouldWaitForProviderID
      [] k = 3 -> config.shouldWaitForMatchingNode
      [] k = 4 -> config.shouldWaitForNodeReady
\* the step before which NewMachine is in the stage before StageOrder[k]
StageBefore(k) == IF k = 2 THEN "newMachine" ELSE StageOrder[k - 1]

\* C27: NewMachine goes through create, the provider-ID wait, the matching-node wait and
\* the node-ready wait in this order only; it enters a wait only from the success of
\* the stage before it and with the flag of this wait and of every wait before it set;
\* a rejected creation is followed by no wait, and with the provider-ID wait off no
\* wait is entered whatever the other two flags say.
C27_StageOrder ==
    /\ [](scope = "controlPlane"
            => /\ \A i \in 1..Len(stages) :
                     stages[i] # "resolveNewNode"
                        => /\ i <= Len(StageOrder)
                           /\ stages[i] = StageOrder[i]
                           /\ \A k \in 2..i : StageFlag(k)
               /\ \A i \in 1..(Len(stages) - 1) : stages[i] # "resolveNewNode"
               /\ (result = [value |-> "error", at |-> "newMachine"]) => stages = <<"create">>
               /\ ~config.shouldWaitForProviderID
                     => /\ pc \notin {"waitForProviderID", "waitForMatchingNode", "waitForNodeReady"}
                        /\ \A i \in 1..Len(stages) : stages[i] \in {"create", "resolveNewNode"}
               /\ \A k \in 2..4 : pc = StageOrder[k] => stages = SubSeq(StageOrder, 1, k))
    /\ [][\A k \in 2..4 :
             (pc' = StageOrder[k] /\ pc # pc')
                => /\ pc = StageBefore(k)
                   /\ result' = [value |-> "none", at |-> ""]
                   /\ \A j \in 2..k : StageFlag(j)
                   /\ \E m \in machines' : m.name = newMachine'.name
                   /\ k >= 3 => providerID' # EmptyProviderID
                   /\ k = 4 => node' # <<>>]_vars
    /\ [][(pc = "newMachine" /\ pc' = "done" /\ result'.value # "crash")
             => (machines' = machines /\ stages' = <<"create">>)]_vars

\* C27 witness: with the provider-ID wait off and the other two waits on, NewMachine
\* has returned the created Machine after the creation alone.
C27_Witness ==
    /\ ~config.shouldWaitForProviderID
    /\ config.shouldWaitForMatchingNode /\ config.shouldWaitForNodeReady
    /\ stages = <<"create", "resolveNewNode">>
    /\ \E r \in returned : r.machine = newMachine

\* the Create requests of the current run for a replacement of the listed Machine obj
ReplacementsOf(obj) == {j \in 1..Len(submitted) : submitted[j].source.name = obj}
\* the listed Machine m is one updateCRDs passes over
PassedOver(m) == <<UpgradeIDAnnotationKey, upgradeID>> \in m.annotations \/ m.providerID = <<>>
\* the listed Machine m is gone and the run created one Machine for it, with the desired
\* version
ReplacedOnce(m) ==
    /\ ~\E s \in machines : s.name = m.name
    /\ Cardinality(ReplacementsOf(m.name)) = 1
    /\ Cardinality({e \in 1..Len(log) : log[e].op = "createMachine" /\ log[e].obj = m.name}) = 1
    /\ \E e \in 1..Len(log) : log[e].op = "deleteMachine" /\ log[e].obj = m.name
    /\ \A j \in ReplacementsOf(m.name) :
          /\ submitted[j].object.version = <<VersionString(desiredVersion)>>
          /\ \E s \in machines : /\ s.name = submitted[j].name
                                 /\ s.version = <<VersionString(desiredVersion)>>
\* the run has written nothing for the listed Machine m, which is stored as listed
LeftAlone(m) ==
    /\ m \in machines
    /\ ReplacementsOf(m.name) = {}
    /\ \A e \in 1..Len(log) : log[e].obj # m.name

\* C28: the control-plane Upgrade returns nil only from the end of the loop over the
\* listed Machines, and then every listed Machine without the current upgrade-id
\* annotation and with a provider ID is deleted and has exactly one replacement created
\* with the desired version, while the listed Machines without a provider ID and the
\* annotated ones are stored as listed, with nothing written for them.
C28_SuccessPostcondition ==
    /\ [][(scope = "controlPlane" /\ result'.value = "ok" /\ result.value # "ok")
             => (pc = "loop" /\ idx = Len(items) /\ machines' = machines)]_vars
    /\ [](pc = "loop"
            => \A j \in 1..idx :
                  IF PassedOver(items[j]) THEN LeftAlone(items[j]) ELSE ReplacedOnce(items[j]))

\* C28 witness: a run has returned nil after replacing a Machine while a Machine
\* without a provider ID is still stored with its old version.
C28_Witness ==
    /\ scope = "controlPlane"
    /\ result.value = "ok"
    /\ \E e \in 1..Len(log) : log[e].op = "deleteMachine"
    /\ \E m \in machines : /\ m.providerID = <<>>
                           /\ m.version # <<VersionString(config.userVersion)>>
                           /\ m \in atStart[1]

====
